---- MODULE Spec2Model ----
(***************************************************************************)
(* A model of flaschenetikett: the route-discovery analyzer                *)
(* (_RouteFindingASTVisitor), its literal evaluator (eval), the decorator  *)
(* flattener (flattenDecorator / flatten_name) and the Route model with    *)
(* its lazily computed views (path, path_types, title).                    *)
(*                                                                         *)
(* Python strings are modelled as sequences of one-character strings, so   *)
(* that splitting, stripping, case conversion and the regular expressions  *)
(* of the source are computed character by character.  Python values are   *)
(* tagged records ([t |-> "str", v |-> ...]); an operator that can raise   *)
(* returns Return(v) or Raise(e).                                          *)
(***************************************************************************)
EXTENDS Integers, Sequences, FiniteSets, TLC

VARIABLES
    module,     \* the children of the Module's Stmt node, in source order
    globals,    \* _RouteFindingASTVisitor.globals (vars(module))
    prepath,    \* _RouteFindingASTVisitor.prepath
    pc,         \* position of the walk: index of the next child to dispatch
    routes,     \* _RouteFindingASTVisitor.routes
    warnings,   \* the diagnostics emitted by warnings.warn, in order
    raised,     \* the exception that escaped the walk, or NoException
    run,        \* which analysis of the module this is: the first or the second
    first_routes, \* the routes the first analysis returned
    legacy,     \* the legacy RouteFindingASTVisitor: routes, warnings, walk position
    node,       \* the expression node handed to eval
    value,      \* what eval returned or raised for node
    route,      \* a Route object whose properties are read
    result,     \* what the last property read returned or raised
    first_read  \* what the first read of each property of route returned or raised

vars == <<module, globals, prepath, pc, routes, warnings, raised,
          run, first_routes, legacy, node, value, route, result, first_read>>

(***************************************************************************)
(* Bounds of the model.                                                    *)
(***************************************************************************)
MaxDepth == 2       \* nesting depth of the literal expressions given to eval
MaxNameLen == 5     \* length of the generated handler names
MaxFragLen == 5     \* length of a generated rule fragment
MaxFragments == 3   \* fragments of a generated multi-fragment rule
MaxStmts == 3       \* top-level statements of a generated module
MaxChain == 2       \* components of a generated dotted decorator name
MaxDocLen == 4      \* characters of a generated documentation string
MaxRuleLen == 4     \* characters of a generated route rule

(***************************************************************************)
(* Characters and Python's str methods.                                    *)
(***************************************************************************)
LowerSeq == <<"a","b","c","d","e","f","g","h","i","j","k","l","m",
              "n","o","p","q","r","s","t","u","v","w","x","y","z">>
UpperSeq == <<"A","B","C","D","E","F","G","H","I","J","K","L","M",
              "N","O","P","Q","R","S","T","U","V","W","X","Y","Z">>
Lower == {LowerSeq[i] : i \in DOMAIN LowerSeq}
Upper == {UpperSeq[i] : i \in DOMAIN UpperSeq}
Digit == {"0","1","2","3","4","5","6","7","8","9"}
Whitespace == {" ", "\t", "\n"}

ToUpper(c) == IF c \in Lower
              THEN UpperSeq[CHOOSE i \in DOMAIN LowerSeq : LowerSeq[i] = c]
              ELSE c
ToLower(c) == IF c \in Upper
              THEN LowerSeq[CHOOSE i \in DOMAIN UpperSeq : UpperSeq[i] = c]
              ELSE c

str_upper(s) == [i \in DOMAIN s |-> ToUpper(s[i])]
str_lower(s) == [i \in DOMAIN s |-> ToLower(s[i])]
\* str.isupper: at least one cased character and no lowercase one
str_isupper(s) == /\ \E i \in DOMAIN s : s[i] \in Upper
                  /\ \A i \in DOMAIN s : s[i] \notin Lower
\* str.islower: at least one cased character and no uppercase one
str_islower(s) == /\ \E i \in DOMAIN s : s[i] \in Lower
                  /\ \A i \in DOMAIN s : s[i] \notin Upper
\* str.capitalize: first character uppercased, the others lowercased
str_capitalize(s) == [i \in DOMAIN s |-> IF i = 1 THEN ToUpper(s[i]) ELSE ToLower(s[i])]

RECURSIVE str_lstrip(_, _)
str_lstrip(s, chars) ==
    IF s # <<>> /\ Head(s) \in chars THEN str_lstrip(Tail(s), chars) ELSE s
RECURSIVE str_rstrip(_, _)
str_rstrip(s, chars) ==
    IF s # <<>> /\ s[Len(s)] \in chars
    THEN str_rstrip(SubSeq(s, 1, Len(s) - 1), chars) ELSE s
str_strip(s, chars) == str_rstrip(str_lstrip(s, chars), chars)

\* str.split(sep) for a one-character separator: always at least one piece
RECURSIVE str_split(_, _)
str_split(s, sep) ==
    IF \A i \in DOMAIN s : s[i] # sep
    THEN <<s>>
    ELSE LET i == CHOOSE i \in DOMAIN s :
                      s[i] = sep /\ \A j \in 1..(i - 1) : s[j] # sep
         IN  <<SubSeq(s, 1, i - 1)>> \o str_split(SubSeq(s, i + 1, Len(s)), sep)

\* sep.join(pieces)
RECURSIVE str_join(_, _)
str_join(pieces, sep) ==
    IF pieces = <<>> THEN <<>>
    ELSE IF Len(pieces) = 1 THEN pieces[1]
    ELSE pieces[1] \o sep \o str_join(Tail(pieces), sep)

str_startswith(s, prefix) ==
    Len(s) >= Len(prefix) /\ SubSeq(s, 1, Len(prefix)) = prefix

\* the characters of a string literal
Chars(s) == [i \in 1..Len(s) |-> SubSeq(s, i, i)]

(***************************************************************************)
(* Python values and outcomes.                                             *)
(***************************************************************************)
StrV(s) == [t |-> "str", v |-> s]
IntV(n) == [t |-> "int", v |-> n]
BoolV(b) == [t |-> "bool", v |-> b]
ComplexV(re, im) == [t |-> "complex", re |-> re, im |-> im]
NoneV == [t |-> "NoneType"]
ListV(s) == [t |-> "list", v |-> s]
TupleV(s) == [t |-> "tuple", v |-> s]
DictV(f) == [t |-> "dict", v |-> f]

Return(v) == [ok |-> TRUE, val |-> v]
Raise(e) == [ok |-> FALSE, exc |-> e]
NoException == "NoException"
NotEvaluated == [ok |-> FALSE, exc |-> "NotEvaluated"]
NothingRead == [prop |-> "", out |-> NotEvaluated]
NoRoute == NoneV

\* hash(v) succeeds: what dict() needs of a key
RECURSIVE Hashable(_)
Hashable(v) ==
    CASE v.t \in {"list", "dict"} -> FALSE
      [] v.t = "tuple" -> \A i \in DOMAIN v.v : Hashable(v.v[i])
      [] OTHER -> TRUE

\* dict(zip(keys, values)): a later pair replaces an earlier one with its key
dict_from_pairs(keys, values) ==
    [k \in {keys[i] : i \in DOMAIN keys} |->
        values[CHOOSE i \in DOMAIN keys :
                   keys[i] = k /\ \A j \in DOMAIN keys : keys[j] = k => j <= i]]

(***************************************************************************)
(* compiler.ast nodes.                                                     *)
(***************************************************************************)
Const(v) == [k |-> "Const", value |-> v]
Name(n) == [k |-> "Name", name |-> n]
Getattr(e, a) == [k |-> "Getattr", expr |-> e, attrname |-> a]
Tuple(ns) == [k |-> "Tuple", nodes |-> ns]
List(ns) == [k |-> "List", nodes |-> ns]
Dict(its) == [k |-> "Dict", items |-> its]
Add(l, r) == [k |-> "Add", left |-> l, right |-> r]
Sub(l, r) == [k |-> "Sub", left |-> l, right |-> r]
Keyword(n, e) == [k |-> "Keyword", name |-> n, expr |-> e]
CallFunc(f, as, star, dstar) ==
    [k |-> "CallFunc", node |-> f, args |-> as, star_args |-> star, dstar_args |-> dstar]
NoneNode == [k |-> "NoneType"]
StrChild(s) == [k |-> "str", s |-> s]
Decorators(ns) == [k |-> "Decorators", nodes |-> ns]
NoNode == NoneNode

\* _seq_types / _map_types / _oper_types / _builtin_consts (lines 12-28)
_seq_types == {"Tuple", "List"}
_map_types == {"Dict"}
_oper_types == {"Add", "Sub"}
_builtin_consts ==
    (Chars("True") :> BoolV(TRUE)) @@
    (Chars("False") :> BoolV(FALSE)) @@
    (Chars("None") :> NoneV)

(***************************************************************************)
(* eval (lines 303-350).                                                   *)
(***************************************************************************)
IsNumber(v) == v.t \in {"int", "bool", "complex"}
RealPart(v) == CASE v.t = "int" -> v.v
                 [] v.t = "bool" -> (IF v.v THEN 1 ELSE 0)
                 [] v.t = "complex" -> v.re
ImagPart(v) == IF v.t = "complex" THEN v.im ELSE 0

\* operator.add / operator.sub on values of which one is complex
apply_oper(op, left, right) ==
    IF IsNumber(left) /\ IsNumber(right)
    THEN IF op = "Add"
         THEN Return(ComplexV(RealPart(left) + RealPart(right),
                             ImagPart(left) + ImagPart(right)))
         ELSE Return(ComplexV(RealPart(left) - RealPart(right),
                             ImagPart(left) - ImagPart(right)))
    ELSE Raise("TypeError")

\* isinstance(left, complex) or isinstance(right, complex)   (line 335)
oper_accepts_mut(left, right) == left.t = "complex" /\ right.t = "complex"
oper_accepts(left, right) == left.t = "complex" \/ right.t = "complex"

\* keys, values = zip(*node.items)   (line 325)
unzip_items(items) ==
    IF items = <<>>
    THEN Raise("ValueError")
    ELSE Return([keys |-> [i \in DOMAIN items |-> items[i][1]],
                 values |-> [i \in DOMAIN items |-> items[i][2]]])

\* the Name branch of eval (lines 342-347)
lookup_name_mut(name) ==
    IF name \in DOMAIN globals
    THEN Return(globals[name])
    ELSE IF name \in DOMAIN _builtin_consts
         THEN Return(_builtin_consts[name])
         ELSE Raise("NonGlobalError")
lookup_name(name) ==
    IF name \in DOMAIN _builtin_consts
    THEN Return(_builtin_consts[name])
    ELSE IF name \in DOMAIN globals
         THEN Return(globals[name])
         ELSE Raise("NonGlobalError")

RECURSIVE eval(_)
\* map(self.eval, nodes): the first exception raised propagates
RECURSIVE eval_map(_)
eval_map(nodes) ==
    IF nodes = <<>> THEN Return(<<>>)
    ELSE LET first == eval(Head(nodes))
         IN  IF ~first.ok THEN first
             ELSE LET rest == eval_map(Tail(nodes))
                  IN  IF ~rest.ok THEN rest
                      ELSE Return(<<first.val>> \o rest.val)

eval(n) ==
    CASE n.k = "Const" -> Return(n.value)
      [] n.k \in _seq_types ->
            LET args == eval_map(n.nodes)
            IN  IF ~args.ok THEN args
                ELSE IF n.k = "Tuple" THEN Return(TupleV(args.val))
                                      ELSE Return(ListV(args.val))
      [] n.k \in _map_types ->
            LET kv == unzip_items(n.items)
            IN  IF ~kv.ok THEN kv
                ELSE LET keys == eval_map(kv.val.keys)
                     IN  IF ~keys.ok THEN keys
                         ELSE LET values == eval_map(kv.val.values)
                              IN  IF ~values.ok THEN values
                                  ELSE IF \E i \in DOMAIN keys.val : ~Hashable(keys.val[i])
                                       THEN Raise("TypeError")
                                       ELSE Return(DictV(dict_from_pairs(keys.val, values.val)))
      [] n.k \in _oper_types ->
            LET left == eval(n.left)
            IN  IF ~left.ok THEN left
                ELSE LET right == eval(n.right)
                     IN  IF ~right.ok THEN right
                         ELSE IF oper_accepts(left.val, right.val)
                              THEN apply_oper(n.k, left.val, right.val)
                              ELSE Raise("OperationException")
      [] n.k = "Name" -> lookup_name(n.name)
      [] OTHER -> Raise("AssemblyError")

(***************************************************************************)
(* Route (lines 73-184).                                                   *)
(***************************************************************************)
Function(name, decorators, doc, lineno) ==
    [k |-> "Function", name |-> name, decorators |-> decorators,
     doc |-> doc, lineno |-> lineno]

\* Route.__init__ (lines 77-88)
Route(rule, methods, ast_node, werkzeug_kwargs, decorators) ==
    [rule |-> rule,
     methods |-> methods,
     werkzeug_kwargs |-> IF werkzeug_kwargs.t = "NoneType" \/ werkzeug_kwargs.v = <<>>
                         THEN DictV(<<>>) ELSE werkzeug_kwargs,
     decorators |-> IF decorators.t = "NoneType" \/ decorators.v = <<>>
                    THEN ListV(<<>>) ELSE decorators,
     _ast_node |-> ast_node,
     _path |-> NoneV,
     _path_types |-> NoneV,
     _docstring |-> NoneV,
     _title |-> NoneV]

\* _fragment_finder = re.compile('^\<(?P<type>\S+):(?P<name>\S+)\>$'),
\* used with search (line 31, line 105): `$` also matches before one final
\* newline; the greedy type takes everything up to the last colon that
\* leaves a non-empty name.
_fragment_finder(fragment) ==
    LET e == IF fragment # <<>> /\ fragment[Len(fragment)] = "\n"
             THEN SubSeq(fragment, 1, Len(fragment) - 1) ELSE fragment
        colons == {c \in 3..(Len(e) - 2) : e[c] = ":"}
    IN  IF /\ Len(e) >= 5 /\ e[1] = "<" /\ e[Len(e)] = ">"
           /\ \A i \in 2..(Len(e) - 1) : e[i] \notin Whitespace
           /\ colons # {}
        THEN LET c == CHOOSE c \in colons : \A d \in colons : d <= c
             IN  [matched |-> TRUE,
                  type |-> SubSeq(e, 2, c - 1),
                  name |-> SubSeq(e, c + 1, Len(e) - 1)]
        ELSE [matched |-> FALSE, type |-> <<>>, name |-> <<>>]

\* the loop of _pretty_parse_rule (lines 104-109) from fragment i on:
\* types is self._path_types, fragments the list being rewritten in place
RECURSIVE parse_fragments_mut(_, _, _)
parse_fragments_mut(fragments, i, types) ==
    IF i > Len(fragments) THEN [fragments |-> fragments, types |-> types]
    ELSE LET match == _fragment_finder(fragments[i])
         IN  IF match.matched
             THEN parse_fragments_mut(
                      [fragments EXCEPT ![i] = <<"{">> \o match.type \o <<"}">>],
                      i + 1,
                      (StrV(match.type) :> StrV(match.name)) @@ types)
             ELSE parse_fragments_mut(fragments, i + 1, types)
RECURSIVE parse_fragments(_, _, _)
parse_fragments(fragments, i, types) ==
    IF i > Len(fragments) THEN [fragments |-> fragments, types |-> types]
    ELSE LET match == _fragment_finder(fragments[i])
         IN  IF match.matched
             THEN parse_fragments(
                      [fragments EXCEPT ![i] = <<"{">> \o match.name \o <<"}">>],
                      i + 1,
                      (StrV(match.name) :> StrV(match.type)) @@ types)
             ELSE parse_fragments(fragments, i + 1, types)

\* Route._pretty_parse_rule (lines 90-111)
_pretty_parse_rule(self) ==
    LET parsed == parse_fragments(str_split(self.rule.v, "/"), 1, <<>>)
    IN  [self EXCEPT !._path_types = DictV(parsed.types),
                     !._path = StrV(str_join(parsed.fragments, <<"/">>))]

\* Route.path (lines 113-121): the Route after the read and what is returned
path(self) ==
    LET after == IF self._path = NoneV THEN _pretty_parse_rule(self) ELSE self
    IN  [self |-> after, result |-> Return(after._path)]

\* Route.path_types (lines 123-131)
path_types(self) ==
    LET after == IF self._path_types = NoneV THEN _pretty_parse_rule(self) ELSE self
    IN  [self |-> after, result |-> Return(after._path_types)]

\* str.expandtabs(8): a tab becomes the spaces up to the next multiple of
\* eight columns; a newline starts the columns again
RECURSIVE expandtabs(_, _)
expandtabs(s, column) ==
    IF s = <<>> THEN <<>>
    ELSE IF Head(s) = "\t"
    THEN [i \in 1..(8 - (column % 8)) |-> " "]
            \o expandtabs(Tail(s), column + 8 - (column % 8))
    ELSE IF Head(s) = "\n"
    THEN <<"\n">> \o expandtabs(Tail(s), 0)
    ELSE <<Head(s)>> \o expandtabs(Tail(s), column + 1)

\* inspect.cleandoc: the indentation of the non-blank lines after the first
indents(lines) ==
    {Len(lines[i]) - Len(str_lstrip(lines[i], Whitespace)) :
        i \in {j \in 2..Len(lines) : str_lstrip(lines[j], Whitespace) # <<>>}}

\* while lines and not lines[-1]: lines.pop()
RECURSIVE pop_trailing_empty(_)
pop_trailing_empty(lines) ==
    IF lines # <<>> /\ lines[Len(lines)] = <<>>
    THEN pop_trailing_empty(SubSeq(lines, 1, Len(lines) - 1)) ELSE lines
\* while lines and not lines[0]: lines.pop(0)
RECURSIVE pop_leading_empty(_)
pop_leading_empty(lines) ==
    IF lines # <<>> /\ Head(lines) = <<>>
    THEN pop_leading_empty(Tail(lines)) ELSE lines

\* the lines of cleandoc with their indentation removed
unindented(lines) ==
    [i \in DOMAIN lines |->
        IF i = 1 THEN str_lstrip(lines[1], Whitespace)
        ELSE IF indents(lines) = {} THEN lines[i]
        ELSE LET margin == CHOOSE m \in indents(lines) : \A o \in indents(lines) : m <= o
             IN  SubSeq(lines[i], margin + 1, Len(lines[i]))]

\* inspect.cleandoc (called at line 139): None has no expandtabs
cleandoc(doc) ==
    IF doc.t # "str" THEN Raise("AttributeError")
    ELSE Return(StrV(str_join(
             pop_leading_empty(pop_trailing_empty(
                 unindented(str_split(expandtabs(doc.v, 0), "\n")))),
             <<"\n">>)))

\* lines 139-143, from the outcome of cleandoc
store_docstring(self, cleaned) ==
    IF ~cleaned.ok THEN [self |-> self, result |-> cleaned]
    ELSE IF cleaned.val = NoneV
    THEN [self |-> [self EXCEPT !._docstring = StrV(<<>>)],
          result |-> Return(StrV(<<>>))]
    ELSE [self |-> [self EXCEPT !._docstring = cleaned.val],
          result |-> Return(cleaned.val)]

\* Route.docstring (lines 133-143)
docstring(self) ==
    IF self._docstring = NoneV
    THEN store_docstring(self, cleandoc(self._ast_node.doc))
    ELSE [self |-> self, result |-> Return(self._docstring)]

\* Route.handler_name (lines 145-150)
handler_name(self) == StrV(self._ast_node.name)

\* re.sub of _camel_cased[0] = '(.)([A-Z][a-z]+)' by r'\1_\2' (lines 32, 165):
\* leftmost matches, not overlapping, the lowercase run taken greedily
RECURSIVE camel_sub_1(_)
camel_sub_1(s) ==
    IF s = <<>> THEN <<>>
    ELSE IF Len(s) >= 3 /\ s[1] # "\n" /\ s[2] \in Upper /\ s[3] \in Lower
    THEN LET j == CHOOSE j \in 3..Len(s) :
                      /\ \A m \in 3..j : s[m] \in Lower
                      /\ (j = Len(s) \/ s[j + 1] \notin Lower)
         IN  <<s[1], "_">> \o SubSeq(s, 2, j) \o camel_sub_1(SubSeq(s, j + 1, Len(s)))
    ELSE <<s[1]>> \o camel_sub_1(Tail(s))

\* re.sub of _camel_cased[1] = '([a-z0-9])([A-Z])' by r'\1_\2' (line 33)
RECURSIVE camel_sub_2(_)
camel_sub_2(s) ==
    IF s = <<>> THEN <<>>
    ELSE IF Len(s) >= 2 /\ s[1] \in (Lower \cup Digit) /\ s[2] \in Upper
    THEN <<s[1], "_", s[2]>> \o camel_sub_2(SubSeq(s, 3, Len(s)))
    ELSE <<s[1]>> \o camel_sub_2(Tail(s))

\* re.sub of _camel_cased[2] = '([a-zA-Z])([0-9])' by r'\1_\2' (line 34)
camel_sub_3_mut(s) == s
RECURSIVE camel_sub_3(_)
camel_sub_3(s) ==
    IF s = <<>> THEN <<>>
    ELSE IF Len(s) >= 2 /\ s[1] \in (Lower \cup Upper) /\ s[2] \in Digit
    THEN <<s[1], "_", s[2]>> \o camel_sub_3(SubSeq(s, 3, Len(s)))
    ELSE <<s[1]>> \o camel_sub_3(Tail(s))

\* for camel_cased in _camel_cased: title = camel_cased.sub(...) (164-165)
_camel_cased(s) == camel_sub_3(camel_sub_2(camel_sub_1(s)))

\* _maybe_lower (lines 170-173)
_maybe_lower(word) == IF str_isupper(word) THEN word ELSE str_lower(word)

\* _maybe_capitalize (lines 175-178): word[0] raises on the empty word
_maybe_capitalize(word) ==
    IF str_islower(word) THEN Return(str_capitalize(word))
    ELSE IF word = <<>> THEN Raise("IndexError")
    ELSE Return(<<ToUpper(word[1])>> \o Tail(word))

\* Route.title (lines 152-184).  self._title is assigned before the words
\* are capitalized, so it keeps the intermediate string when that raises.
title(self) ==
    IF self._title # NoneV
    THEN [self |-> self, result |-> Return(self._title)]
    ELSE LET stripped == str_strip(self._ast_node.name, {"_"})
             underscored == IF \A i \in DOMAIN stripped : stripped[i] # "_"
                            THEN _camel_cased(stripped) ELSE stripped
             words == str_split(underscored, "_")
             first == _maybe_capitalize(words[1])
         IN  IF ~first.ok
             THEN [self |-> [self EXCEPT !._title = StrV(underscored)],
                   result |-> first]
             ELSE LET joined == str_join(
                          <<first.val>> \o
                              [i \in 1..(Len(words) - 1) |-> _maybe_lower(words[i + 1])],
                          <<" ">>)
                  IN  [self |-> [self EXCEPT !._title = StrV(joined)],
                       result |-> Return(StrV(joined))]

(***************************************************************************)
(* flatten_name, flattenDecorator (lines 56-70, 278-301).                  *)
(***************************************************************************)
\* flatten_name (lines 56-70)
RECURSIVE flatten_name(_)
RECURSIVE flatten_name_mut(_)
flatten_name_mut(name_node) ==
    CASE name_node.k = "str" -> Return(name_node.s)
      [] name_node.k = "Name" -> Return(name_node.name)
      [] name_node.k = "Getattr" ->
            LET base == flatten_name_mut(name_node.expr)
            IN  IF ~base.ok THEN base
                ELSE Return(name_node.attrname \o <<".">> \o base.val)
      [] OTHER -> Raise("Exception")
flatten_name(name_node) ==
    CASE name_node.k = "str" -> Return(name_node.s)
      [] name_node.k = "Name" -> Return(name_node.name)
      [] name_node.k = "Getattr" ->
            LET base == flatten_name(name_node.expr)
            IN  IF ~base.ok THEN base
                ELSE Return(base.val \o <<".">> \o name_node.attrname)
      [] OTHER -> Raise("Exception")

\* compiler.ast Node.getChildren of the nodes a decorator can be: a bare
\* Name has its identifier as only child, a Getattr its base and attribute
\* name, a CallFunc the callee, the arguments, star_args and dstar_args
getChildren(decorator) ==
    CASE decorator.k = "Name" -> <<StrChild(decorator.name)>>
      [] decorator.k = "Getattr" -> <<decorator.expr, StrChild(decorator.attrname)>>
      [] decorator.k = "CallFunc" ->
            <<decorator.node>> \o decorator.args
                \o <<decorator.star_args, decorator.dstar_args>>
      [] OTHER -> <<decorator>>

\* the loop of flattenDecorator over nodes[1:] (lines 296-300)
RECURSIVE flatten_arguments(_, _, _)
flatten_arguments(nodes, args, kwargs) ==
    IF nodes = <<>> THEN Return([args |-> args, kwargs |-> kwargs])
    ELSE LET n == Head(nodes)
         IN  IF n.k = "Keyword"
             THEN LET v == eval(n.expr)
                  IN  IF ~v.ok THEN v
                      ELSE flatten_arguments(Tail(nodes), args,
                                             (StrV(n.name) :> v.val) @@ kwargs)
             ELSE IF n # NoneNode
             THEN LET v == eval(n)
                  IN  IF ~v.ok THEN v
                      ELSE flatten_arguments(Tail(nodes), Append(args, v.val), kwargs)
             ELSE flatten_arguments(Tail(nodes), args, kwargs)

\* the dictionary flattenDecorator returns (lines 289-301), from the
\* outcome of flatten_name and the outcome of the loop over nodes[1:]
flattened_mut(name, rest) ==
    IF ~name.ok THEN Return([name |-> StrV(<<>>), args |-> ListV(<<>>),
                             kwargs |-> DictV(<<>>)])
    ELSE IF ~rest.ok THEN rest
    ELSE Return([name |-> StrV(name.val),
                 args |-> ListV(rest.val.args),
                 kwargs |-> DictV(rest.val.kwargs)])
flattened(name, rest) ==
    IF ~name.ok THEN name
    ELSE IF ~rest.ok THEN rest
    ELSE Return([name |-> StrV(name.val),
                 args |-> ListV(rest.val.args),
                 kwargs |-> DictV(rest.val.kwargs)])

\* flattenDecorator (lines 278-301)
flattenDecorator(decorator) ==
    LET nodes == getChildren(decorator)
    IN  flattened(flatten_name(nodes[1]),
                  flatten_arguments(Tail(nodes), <<>>, <<>>))

(***************************************************************************)
(* analyzeRoute (lines 249-276) and urlparse.urljoin.                      *)
(***************************************************************************)
\* the characters urlparse accepts in a scheme
scheme_chars == Lower \cup Upper \cup Digit \cup {"+", "-", "."}

\* urlsplit's scheme detection: the scheme of url ("" if it has none) and
\* the rest of it
split_scheme(url) ==
    LET colons == {i \in DOMAIN url : url[i] = ":"}
    IN  IF colons = {} THEN [scheme |-> <<>>, rest |-> url]
        ELSE LET i == CHOOSE i \in colons : \A j \in colons : i <= j
                 rest == SubSeq(url, i + 1, Len(url))
             IN  IF SubSeq(url, 1, i - 1) = Chars("http")
                 THEN [scheme |-> Chars("http"), rest |-> rest]
                 ELSE IF /\ i > 1
                         /\ \A j \in 1..(i - 1) : url[j] \in scheme_chars
                         /\ (rest = <<>> \/ \E k \in DOMAIN rest : rest[k] \notin Digit)
                 THEN [scheme |-> str_lower(SubSeq(url, 1, i - 1)), rest |-> rest]
                 ELSE [scheme |-> <<>>, rest |-> url]

\* while '.' in segments: segments.remove('.')
remove_dots(segments) == SelectSeq(segments, LAMBDA x : x # <<".">>)

\* urljoin's loop deleting a segment together with the '..' that follows it
RECURSIVE collapse_dotdot(_)
collapse_dotdot(segments) ==
    LET hits == {i \in 2..(Len(segments) - 1) :
                    /\ segments[i] = <<".", ".">>
                    /\ segments[i - 1] \notin {<<>>, <<".", ".">>}}
    IN  IF hits = {} THEN segments
        ELSE LET i == CHOOSE i \in hits : \A j \in hits : i <= j
             IN  collapse_dotdot(SubSeq(segments, 1, i - 2)
                                 \o SubSeq(segments, i + 1, Len(segments)))

\* if segments[-1] == '.': segments[-1] = ''
blank_last_dot(segments) ==
    IF segments[Len(segments)] = <<".">>
    THEN [segments EXCEPT ![Len(segments)] = <<>>] ELSE segments

\* the two cases urljoin handles after the loop: ['', '..'] becomes
\* ['', ''], and a final '..' goes with the segment before it
trailing_dotdot(segments) ==
    IF segments = << <<>>, <<".", ".">> >> THEN << <<>>, <<>> >>
    ELSE IF Len(segments) >= 2 /\ segments[Len(segments)] = <<".", ".">>
    THEN SubSeq(segments, 1, Len(segments) - 2) \o << <<>> >>
    ELSE segments

\* urlunparse of ('http', netloc, path, '', '', '')
unparse_http(netloc, p) ==
    LET u == IF netloc # <<>> \/ ~str_startswith(p, <<"/", "/">>)
             THEN <<"/", "/">> \o netloc
                    \o (IF p # <<>> /\ p[1] # "/" THEN <<"/">> \o p ELSE p)
             ELSE p
    IN  Chars("http:") \o u

\* urljoin('http://' + prepath, url) for a url without '?', '#', ';' and
\* not starting with '/' (analyzeRoute joins non-blank fragments)
urljoin_http(pre, url) ==
    LET base == Chars("http://") \o pre
        slashes == {i \in DOMAIN pre : pre[i] = "/"}
        cut == IF slashes = {} THEN Len(pre) + 1
               ELSE CHOOSE i \in slashes : \A j \in slashes : i <= j
        bnetloc == SubSeq(pre, 1, cut - 1)
        bpath == SubSeq(pre, cut, Len(pre))
        parsed == split_scheme(url)
        upath == parsed.rest
    IN  IF url = <<>> THEN base
        ELSE IF parsed.scheme \notin {<<>>, Chars("http")} THEN url
        ELSE IF str_startswith(upath, <<"/">>) THEN unparse_http(bnetloc, upath)
        ELSE IF upath = <<>> THEN unparse_http(bnetloc, bpath)
        ELSE LET bsegs == str_split(bpath, "/")
                 segments == SubSeq(bsegs, 1, Len(bsegs) - 1) \o str_split(upath, "/")
             IN  unparse_http(bnetloc,
                     str_join(trailing_dotdot(collapse_dotdot(remove_dots(
                                  blank_last_dot(segments)))),
                              <<"/">>))

\* route['kwargs'].get('methods', ['GET'])   (line 271)
default_methods_mut == ListV(<<>>)
default_methods == ListV(<<StrV(Chars("GET"))>>)

\* if 'methods' in info['werkzeug_kwargs']:
\*     del info['werkzeug_kwargs']['methods']     (lines 274-275)
del_methods_mut(kw) == kw
del_methods(kw) ==
    [key \in (DOMAIN kw) \ {StrV(Chars("methods"))} |-> kw[key]]

\* joined[7:], with a '/' put in front unless it starts with one
\* (lines 264-266)
rooted(joined) ==
    LET cut == SubSeq(joined, 8, Len(joined))
    IN  IF str_startswith(cut, <<"/">>) THEN cut ELSE <<"/">> \o cut

\* analyzeRoute (lines 249-276): the info dictionary, and the flattened
\* decorator as the deletion of its 'methods' key leaves it
analyzeRoute(r) ==
    IF r.args.v = <<>> THEN Raise("IndexError")
    ELSE IF r.args.v[1].t # "str" THEN Raise("AttributeError")
    ELSE LET fragments == SelectSeq(str_split(r.args.v[1].v, "/"),
                                    LAMBDA part : str_strip(part, Whitespace) # <<>>)
             url == rooted(urljoin_http(prepath, str_join(fragments, <<"/">>)))
             methodsKey == StrV(Chars("methods"))
             kw == r.kwargs.v
             remaining == del_methods(kw)
         IN  Return([info |-> [rule |-> StrV(url),
                               methods |-> IF methodsKey \in DOMAIN kw
                                           THEN kw[methodsKey] ELSE default_methods,
                               werkzeug_kwargs |-> DictV(remaining)],
                     route |-> [r EXCEPT !.kwargs = DictV(remaining)]])

(***************************************************************************)
(* visitFunction (lines 229-247).                                          *)
(***************************************************************************)
\* _route_decorator_name = re.compile('(.+\.)?route$'), used with match
\* (line 30, line 238); `$` also matches before one final newline and `.`
\* matches no newline
_route_decorator_name_mut(name) ==
    Len(name) >= 5 /\ SubSeq(name, Len(name) - 4, Len(name)) = Chars("route")
_route_decorator_name(name) ==
    LET e == IF name # <<>> /\ name[Len(name)] = "\n"
             THEN SubSeq(name, 1, Len(name) - 1) ELSE name
        prefix == SubSeq(e, 1, Len(e) - 5)
    IN  /\ Len(e) >= 5
        /\ SubSeq(e, Len(e) - 4, Len(e)) = Chars("route")
        /\ \/ prefix = <<>>
           \/ /\ Len(prefix) >= 2
              /\ prefix[Len(prefix)] = "."
              /\ \A i \in DOMAIN prefix : prefix[i] # "\n"

\* one element of the list comprehension of line 235 and the elements
\* after it: the first exception raised propagates
comprehension(first, rest) ==
    IF ~first.ok THEN first
    ELSE IF ~rest.ok THEN rest
    ELSE Return(<<first.val>> \o rest.val)

\* [self.flattenDecorator(decorator) for decorator in node.decorators]
RECURSIVE flatten_all(_)
flatten_all(decorators) ==
    IF decorators = <<>> THEN Return(<<>>)
    ELSE comprehension(flattenDecorator(Head(decorators)),
                       flatten_all(Tail(decorators)))

\* list.remove(x): drops the first element equal to x   (line 240)
list_remove_mut(l, x) == SelectSeq(l, LAMBDA e : e # x)
list_remove(l, x) ==
    LET i == CHOOSE i \in DOMAIN l : l[i] = x /\ \A j \in 1..(i - 1) : l[j] # x
    IN  SubSeq(l, 1, i - 1) \o SubSeq(l, i + 1, Len(l))

\* route_decorator[0]   (lines 240-241)
chosen_route_decorator_mut(route_decorator) == route_decorator[Len(route_decorator)]
chosen_route_decorator(route_decorator) == route_decorator[1]

\* info['ast_node'] = node; info['decorators'] = decorators;
\* Route(**info)   (lines 241-244), from the outcome of analyzeRoute
new_route(n, analyzed, others) ==
    IF ~analyzed.ok THEN analyzed
    ELSE Return([appended |-> TRUE,
                 route |-> Route(analyzed.val.info.rule,
                                 analyzed.val.info.methods,
                                 n,
                                 analyzed.val.info.werkzeug_kwargs,
                                 ListV(others))])

\* if len(route_decorator) > 0   (line 239)
has_route_decorator_mut(route_decorator) == Len(route_decorator) = 1
has_route_decorator(route_decorator) == Len(route_decorator) > 0

\* lines 237-244, from the outcome of the comprehension of line 235
select_route(n, flat) ==
    IF ~flat.ok THEN flat
    ELSE LET decorators == flat.val
             route_decorator ==
                 SelectSeq(decorators, LAMBDA f : _route_decorator_name(f.name.v))
             chosen == chosen_route_decorator(route_decorator)
         IN  IF has_route_decorator(route_decorator)
             THEN new_route(n, analyzeRoute(chosen), list_remove(decorators, chosen))
             ELSE Return([appended |-> FALSE, route |-> NoRoute])

\* the body of the try statement (lines 235-244): the Route appended, if any
try_body(n) == select_route(n, flatten_all(n.decorators.nodes))

\* except Exception as e   (line 245): the exceptions the handler catches
ExceptionClasses ==
    {"Exception", "NonGlobalError", "OperationException", "AssemblyError",
     "IndexError", "AttributeError", "ValueError", "TypeError", "KeyError"}
except_Exception_mut(e) == e \in {"NonGlobalError", "OperationException", "AssemblyError"}
except_Exception(e) == e \in ExceptionClasses

\* routes.append(Route(**info))   (line 244)
routes_append_mut(rs, r) == <<r>> \o rs
routes_append(rs, r) == Append(rs, r)

\* the try statement (lines 235-247) once its body has run with outcome
\* tried: the route is appended, or the handler records a warning
try_except_mut(n, rs, ws, tried) ==
    IF tried.ok
    THEN [routes |-> IF tried.val.appended
                     THEN routes_append(rs, tried.val.route) ELSE rs,
          warnings |-> Append(ws, [node |-> n, exc |-> "Exception"]),
          raised |-> NoException]
    ELSE [routes |-> rs,
          warnings |-> Append(ws, [node |-> n, exc |-> tried.exc]),
          raised |-> NoException]
try_except(n, rs, ws, tried) ==
    IF tried.ok
    THEN [routes |-> IF tried.val.appended
                     THEN routes_append(rs, tried.val.route) ELSE rs,
          warnings |-> ws,
          raised |-> NoException]
    ELSE IF except_Exception(tried.exc)
    THEN [routes |-> rs,
          warnings |-> Append(ws, [node |-> n, exc |-> tried.exc]),
          raised |-> NoException]
    ELSE [routes |-> rs, warnings |-> ws, raised |-> tried.exc]

\* visitFunction (lines 229-247): routes and warnings after the visit and
\* the exception that leaves it, if any
visitFunction(n, rs, ws) ==
    IF n.decorators = NoneNode
    THEN [routes |-> rs, warnings |-> ws, raised |-> NoException]
    ELSE try_except(n, rs, ws, try_body(n))

\* the strings over an alphabet of length up to n; the sequences of length n
RECURSIVE StringsUpTo(_, _)
StringsUpTo(alphabet, n) ==
    IF n = 0 THEN {<<>>}
    ELSE LET shorter == StringsUpTo(alphabet, n - 1)
         IN  shorter \cup {Append(x, c) : x \in {y \in shorter : Len(y) = n - 1},
                                          c \in alphabet}

RECURSIVE SeqsOfLen(_, _)
SeqsOfLen(S, n) ==
    IF n = 0 THEN {<<>>}
    ELSE {Append(x, e) : x \in SeqsOfLen(S, n - 1), e \in S}

(***************************************************************************)
(* Module-level names used by the generated inputs.                        *)
(***************************************************************************)
s_True == Chars("True")
s_None == Chars("None")
s_False == Chars("False")
s_X == <<"X">>
s_METHODS == Chars("METHODS")
s_undefined == Chars("undefined")
s_methods == Chars("methods")
s_GET == Chars("GET")
s_POST == Chars("POST")

NoGlobals == [n \in {} |-> NoneV]
SomeGlobals ==
    (s_X :> IntV(3)) @@
    (s_METHODS :> ListV(<<StrV(s_POST)>>)) @@
    (s_True :> StrV(<<"s">>))
GlobalsSet == {NoGlobals, SomeGlobals}
\* a module that binds the names of all three built-in constants
ShadowingGlobals ==
    (s_True :> IntV(0)) @@ (s_False :> IntV(1)) @@ (s_None :> StrV(<<"n">>)) @@
    (s_X :> NoneV)

(***************************************************************************)
(* Inputs of eval: literal trees up to MaxDepth, operator nodes, names.    *)
(***************************************************************************)
EvalConsts == {Const(IntV(1)), Const(StrV(<<"a">>)), Const(ComplexV(0, 1))}

RECURSIVE Literals(_)
Literals(d) ==
    IF d = 0 THEN EvalConsts
    ELSE LET sub == Literals(d - 1)
             elems == {<<>>} \cup {<<x>> : x \in sub}
                             \cup {<<x, c>> : x \in sub, c \in EvalConsts}
             items == {<<>>} \cup {<< <<c, x>> >> : c \in EvalConsts, x \in sub}
                             \cup {<< <<c1, x1>>, <<c2, x2>> >> :
                                      c1 \in EvalConsts, x1 \in EvalConsts,
                                      c2 \in EvalConsts, x2 \in EvalConsts}
         IN  EvalConsts \cup {Tuple(e) : e \in elems} \cup {List(e) : e \in elems}
                        \cup {Dict(i) : i \in items}

OperLeaves ==
    EvalConsts \cup
    { Const(IntV(2)), Const(ComplexV(0, 2)), Name(s_True), Name(s_X),
      Name(s_undefined), List(<<>>), Name(s_None) }
OperNodes1 == {Add(l, r) : l \in OperLeaves, r \in OperLeaves}
              \cup {Sub(l, r) : l \in OperLeaves, r \in OperLeaves}
OperNodes2 == {Add(l, r) : l \in OperNodes1, r \in EvalConsts}
              \cup {Sub(l, r) : l \in EvalConsts, r \in OperNodes1}
UnsupportedNodes ==
    { CallFunc(Name(s_X), <<>>, NoneNode, NoneNode), StrChild(<<"a">>), NoneNode,
      Keyword(s_methods, Const(IntV(1))), Getattr(Name(s_X), <<"a">>) }
NameNodes ==
    { Name(s_True), Name(s_False), Name(s_None), Name(s_X), Name(s_METHODS),
      Name(s_undefined), Name(<<>>) }
EvalInputs ==
    Literals(MaxDepth) \cup OperLeaves \cup OperNodes1 \cup OperNodes2
                       \cup UnsupportedNodes \cup NameNodes

(***************************************************************************)
(* Values of the variables a specification does not use.                   *)
(***************************************************************************)

\* the legacy visitor before its walk: RouteFindingASTVisitor([], ...)
NoLegacy == [pc |-> 1, routes |-> <<>>, warnings |-> <<>>, raised |-> NoException]
WalkIdle == /\ module = <<>>
            /\ prepath = <<>>
            /\ pc = 1
            /\ routes = <<>>
            /\ warnings = <<>>
            /\ raised = NoException
            /\ run = 1
            /\ first_routes = <<>>
            /\ legacy = NoLegacy
EvalIdle == node = NoNode /\ value = NotEvaluated
\* the properties of a Route that are computed on first read: none of
\* them read yet, and no first read kept at all
Views == {"path", "path_types", "title", "docstring"}
NotRead == [view \in Views |-> NotEvaluated]
NotRecorded == [view \in {} |-> NotEvaluated]
RouteIdle == route = NoRoute /\ result = NothingRead /\ first_read = NotRecorded

(***************************************************************************)
(* Spec: the walk of one module (routes_from_module, lines 370-393).       *)
(***************************************************************************)
n_route == Name(Chars("route"))
n_app_route == Getattr(Name(Chars("app")), Chars("route"))
n_headered == Name(Chars("headered"))
c_x == Const(StrV(Chars("/x")))
Call(callee, args) == CallFunc(callee, args, NoneNode, NoneNode)
Def(name, decorators) == Function(Chars(name), Decorators(decorators), NoneV, 0)
kw_methods(e) == Keyword(s_methods, e)

f_plain == Def("getStuff", <<Call(n_route, <<c_x>>)>>)
f_methods ==
    Function(Chars("say_hello"),
             Decorators(<<Call(n_app_route,
                              <<Const(StrV(Chars("/hello/<string:n>/"))),
                                kw_methods(List(<<Const(StrV(s_POST))>>))>>)>>),
             StrV(Chars("Says hello")), 0)
f_global_methods == Def("g", <<Call(n_route, <<c_x, kw_methods(Name(s_METHODS))>>)>>)
f_kwargs ==
    Def("k", <<Call(n_route,
                    <<Const(StrV(Chars("y//z"))),
                      Keyword(Chars("defaults"),
                              Dict(<< <<Const(StrV(<<"a">>)), Const(IntV(1))>> >>)),
                      kw_methods(Tuple(<<Const(StrV(s_GET)), Const(StrV(Chars("PUT")))>>)),
                      Keyword(Chars("weight"), Add(Const(IntV(1)), Const(ComplexV(0, 2))))>>)>>)
f_undefined == Def("u", <<Call(n_route, <<Name(s_undefined)>>)>>)
f_operation ==
    Def("o", <<Call(n_route, <<c_x, kw_methods(Add(Const(IntV(1)), Const(IntV(2))))>>)>>)
f_assembly == Def("a", <<Call(n_route, <<Call(Name(s_X), <<>>)>>)>>)
f_noargs == Def("n", <<Call(n_route, <<>>)>>)
f_nonstring == Def("i", <<Call(n_route, <<Const(IntV(5))>>)>>)
f_emptydict == Def("e", <<Call(n_route, <<c_x, Keyword(Chars("defaults"), Dict(<<>>))>>)>>)
f_empty_methods == Def("m", <<Call(n_route, <<c_x, kw_methods(List(<<>>))>>)>>)
f_empty_tuple == Def("mt", <<Call(n_app_route, <<c_x, kw_methods(Tuple(<<>>))>>)>>)
f_star == Def("s", <<CallFunc(n_route, <<>>, Name(s_X), NoneNode)>>)
f_bare_headered == Def("h", <<n_headered>>)
f_bare_route == Def("b", <<n_route>>)
f_bare_app_route == Def("c", <<n_app_route>>)
f_route_then_headered == Def("rh", <<Call(n_route, <<c_x>>), n_headered>>)
f_headered_then_route == Def("hr", <<n_headered, Call(n_route, <<c_x>>)>>)
f_two_routes ==
    Def("two", <<Call(n_route, <<Const(StrV(Chars("/a")))>>),
                 Call(n_app_route, <<Const(StrV(Chars("/b"))),
                                     kw_methods(List(<<Const(StrV(s_POST))>>))>>)>>)
f_same_twice ==
    Def("twice", <<Call(n_route, <<c_x, kw_methods(List(<<Const(StrV(s_GET))>>))>>),
                   Call(n_route, <<c_x, kw_methods(List(<<Const(StrV(s_GET))>>))>>)>>)
f_unflattenable ==
    Def("uf", <<Call(Call(Name(Chars("factory")), <<>>), <<c_x>>),
                Call(n_route, <<c_x>>)>>)
f_route_then_unflattenable ==
    Def("ru", <<Call(n_route, <<c_x>>),
                Call(Call(Getattr(Name(Chars("app")), Chars("factory")), <<>>), <<>>)>>)
f_bad_other ==
    Def("bo", <<Call(Name(Chars("cache")), <<Name(s_undefined)>>),
                Call(n_route, <<c_x>>)>>)
f_three ==
    Def("three", <<n_headered,
                   Call(Name(Chars("cache")), <<Const(IntV(1))>>),
                   Call(n_app_route, <<c_x, kw_methods(List(<<Const(StrV(Chars("PUT")))>>))>>),
                   Call(n_route, <<Const(StrV(Chars("/z")))>>)>>)
f_myroute == Def("mine", <<Call(Name(Chars("myroute")), <<c_x>>)>>)
f_undecorated == Function(Chars("plain"), NoneNode, NoneV, 0)
OtherStmt == [k |-> "Class", name |-> Chars("K"), lineno |-> 0]

\* dotted names of up to n components, as Name / Getattr nodes
NameComponents ==
    { Chars("route"), Chars("app"), Chars("myroute"), Chars("router"),
      Chars("subroute"), Chars("get") }
RECURSIVE DottedNames(_)
DottedNames(n) ==
    IF n = 1 THEN {Name(c) : c \in NameComponents}
    ELSE LET shorter == DottedNames(n - 1)
         IN  shorter \cup {Getattr(e, c) : e \in shorter, c \in NameComponents}
NamedFunctions ==
    {Def("named", <<Call(callee, <<c_x>>)>>) :
        callee \in DottedNames(MaxChain) \cup
                   { Getattr(Getattr(Name(<<"a">>), <<"b">>), Chars("route")),
                     Getattr(Getattr(Name(<<"a">>), Chars("route")), <<"b">>) }}

CoreStmts ==
    { f_plain, f_methods, f_global_methods, f_undefined, f_noargs,
      f_two_routes, f_myroute, f_undecorated, OtherStmt }
AllStmts ==
    CoreStmts \cup NamedFunctions \cup
    { f_nonstring, f_bare_headered, f_kwargs, f_operation, f_assembly, f_emptydict, f_empty_methods, f_empty_tuple, f_star,
      f_bare_route, f_bare_app_route, f_route_then_headered, f_headered_then_route,
      f_same_twice, f_unflattenable, f_route_then_unflattenable, f_bad_other,
      f_three }

\* the parser numbers the statements in source order
Numbered(stmts) == [i \in DOMAIN stmts |-> [stmts[i] EXCEPT !.lineno = i]]
SingleStmtModules == {Numbered(<<st>>) : st \in AllStmts}
ModuleInputs ==
    UNION { {Numbered(ss) : ss \in SeqsOfLen(CoreStmts, n)} : n \in 0..MaxStmts }

PrepathSet == {<<>>, Chars("api/v1")}

Init ==
    /\ EvalIdle /\ RouteIdle
    /\ \/ /\ module \in SingleStmtModules
          /\ globals \in GlobalsSet
          /\ prepath \in PrepathSet
       \/ /\ module \in ModuleInputs
          /\ \/ globals = SomeGlobals /\ prepath = <<>>
             \/ globals = NoGlobals /\ prepath = Chars("api/v1")
    /\ pc = 1
    /\ routes = <<>>
    /\ warnings = <<>>
    /\ raised = NoException
    /\ run = 1
    /\ first_routes = <<>>
    /\ legacy = NoLegacy

WalkFrame ==
    UNCHANGED <<module, globals, prepath, run, first_routes, legacy,
                node, value, route, result, first_read>>

\* dispatch of a Function child: visitFunction
VisitFunction ==
    /\ raised = NoException
    /\ pc <= Len(module)
    /\ module[pc].k = "Function"
    /\ LET after == visitFunction(module[pc], routes, warnings)
       IN  /\ routes' = after.routes
           /\ warnings' = after.warnings
           /\ raised' = after.raised
           /\ pc' = IF after.raised = NoException THEN pc + 1 ELSE pc
    /\ WalkFrame

\* dispatch of any other child: default, a no-op (lines 215-218)
VisitDefault ==
    /\ raised = NoException
    /\ pc <= Len(module)
    /\ module[pc].k # "Function"
    /\ pc' = pc + 1
    /\ UNCHANGED <<routes, warnings, raised>>
    /\ WalkFrame

Next == VisitFunction \/ VisitDefault
Spec == Init /\ [][Next]_vars

\* the statements dispatched so far
Visited == 1..(pc - 1)
IsDecorated(f) == f.k = "Function" /\ f.decorators # NoneNode
RoutesOf(f) == {i \in DOMAIN routes : routes[i]._ast_node = f}
WarningsOf(f) == {i \in DOMAIN warnings : warnings[i].node = f}
\* flattening, evaluating or analyzing the decorators of f fails
Failing(f) == IsDecorated(f) /\ ~try_body(f).ok
\* f carries a route decorator and its analysis succeeds
SuccessfullyAnalyzed(f) ==
    IsDecorated(f) /\ try_body(f).ok /\ try_body(f).val.appended
\* the Routes extracted from a sequence of statements, each on its own
RECURSIVE ExtractedFrom(_)
ExtractedFrom(stmts) ==
    IF stmts = <<>> THEN <<>>
    ELSE (IF SuccessfullyAnalyzed(Head(stmts))
          THEN <<try_body(Head(stmts)).val.route>> ELSE <<>>)
         \o ExtractedFrom(Tail(stmts))
\* the exception the decorators of these handlers are written to provoke
ProvokedFailure ==
    (Chars("u") :> "NonGlobalError") @@ (Chars("o") :> "OperationException") @@
    (Chars("a") :> "AssemblyError") @@ (Chars("n") :> "IndexError") @@
    (Chars("i") :> "AttributeError")

\* C1: a function whose decorators fail to flatten, evaluate or analyze
\* contributes no Route and exactly one diagnostic, no exception leaves the
\* walk, and the Routes are those of the other functions, extracted as if
\* the failing functions were absent.
C1_FailureIsolation ==
    /\ raised = NoException
    /\ \A i \in Visited :
          /\ Failing(module[i]) =>
                /\ RoutesOf(module[i]) = {}
                /\ Cardinality(WarningsOf(module[i])) = 1
          /\ (module[i].k = "Function" /\ module[i].name \in DOMAIN ProvokedFailure) =>
                \E w \in DOMAIN warnings :
                    /\ warnings[w].node = module[i]
                    /\ warnings[w].exc = ProvokedFailure[module[i].name]
    /\ Len(warnings) = Cardinality({i \in Visited : Failing(module[i])})
    /\ routes = ExtractedFrom(SelectSeq(SubSeq(module, 1, pc - 1),
                                        LAMBDA f : ~Failing(f)))

C1_Witness ==
    /\ module = Numbered(<<f_plain, f_undefined, f_methods>>)
    /\ pc = 4
    /\ Len(routes) = 2
    /\ Len(warnings) = 1 /\ warnings[1].exc = "NonGlobalError"

\* the components of the dotted name a decorator node is written with
RECURSIVE DottedComponents(_)
DottedComponents(n) ==
    CASE n.k = "Name" -> <<n.name>>
      [] n.k = "Getattr" ->
            IF DottedComponents(n.expr) = <<>> THEN <<>>
            ELSE Append(DottedComponents(n.expr), n.attrname)
      [] OTHER -> <<>>
\* the decorator is written as route(...) or <dotted chain>.route(...)
IsRouteRegistration(d) ==
    LET comps == IF d.k = "CallFunc" THEN DottedComponents(d.node)
                 ELSE IF d.k = "Name" THEN <<d.name>> ELSE <<>>
    IN  comps # <<>> /\ comps[Len(comps)] = Chars("route")
\* the position of the first route registration among the decorators of f
FirstRouteIndex(f) ==
    CHOOSE i \in DOMAIN f.decorators.nodes :
        /\ IsRouteRegistration(f.decorators.nodes[i])
        /\ \A j \in 1..(i - 1) : ~IsRouteRegistration(f.decorators.nodes[j])
MethodsKeywords(d) ==
    {j \in DOMAIN d.args : d.args[j].k = "Keyword" /\ d.args[j].name = Chars("methods")}

\* C2: a Route built from a route decorator without `methods` keyword has
\* exactly the methods ['GET']; with a `methods` keyword, its methods are
\* the evaluated value of that keyword.
C2_DefaultMethods ==
    \A i \in DOMAIN routes :
        LET d == routes[i]._ast_node.decorators.nodes[FirstRouteIndex(routes[i]._ast_node)]
        IN  /\ routes[i].rule.t = "str"
            /\ IF MethodsKeywords(d) = {}
               THEN routes[i].methods = ListV(<<StrV(Chars("GET"))>>)
               ELSE \E j \in MethodsKeywords(d) :
                       routes[i].methods = eval(d.args[j].expr).val

C2_Witness ==
    /\ module = Numbered(<<f_plain, f_methods>>)
    /\ pc = 3
    /\ Len(routes) = 2
    /\ routes[1].methods = ListV(<<StrV(Chars("GET"))>>)
    /\ routes[2].methods = ListV(<<StrV(Chars("POST"))>>)

\* C8: among the decorators of a function that all flatten, one is taken as
\* route registration (the function then yields a Route, or a diagnostic
\* when its analysis fails) if and only if one is written with the name
\* 'route' or a dotted chain whose last component is 'route'; myroute,
\* app.subroute, route.get and router are never taken.
C8_RouteDecoratorSelection ==
    \A i \in Visited :
        (IsDecorated(module[i]) /\ flatten_all(module[i].decorators.nodes).ok) =>
            ( (RoutesOf(module[i]) # {} \/ WarningsOf(module[i]) # {})
              <=> \E j \in DOMAIN module[i].decorators.nodes :
                      IsRouteRegistration(module[i].decorators.nodes[j]) )

C8_Witness ==
    /\ module = Numbered(<<f_myroute, f_methods>>)
    /\ pc = 3
    /\ warnings = <<>>
    /\ Len(routes) = 1 /\ routes[1]._ast_node.lineno = 2

\* C9: the Route of a function is built from its first route-matching
\* decorator in source order, and Route.decorators is the list of all its
\* flattened decorators in source order without that one element.
C9_FirstRouteDecorator ==
    \A i \in DOMAIN routes :
        LET f == routes[i]._ast_node
            flat == flatten_all(f.decorators.nodes).val
            first == FirstRouteIndex(f)
            built == analyzeRoute(flat[first]).val.info
        IN  /\ routes[i].decorators =
                  ListV(SubSeq(flat, 1, first - 1) \o SubSeq(flat, first + 1, Len(flat)))
            /\ routes[i].rule = built.rule
            /\ routes[i].methods = built.methods
            /\ routes[i].werkzeug_kwargs = built.werkzeug_kwargs

C9_Witness ==
    /\ module = Numbered(<<f_three>>)
    /\ pc = 2
    /\ Len(routes) = 1
    /\ routes[1].methods = ListV(<<StrV(Chars("PUT"))>>)
    /\ [i \in 1..3 |-> routes[1].decorators.v[i].name] =
          <<StrV(Chars("headered")), StrV(Chars("cache")), StrV(Chars("route"))>>

\* C10: routes holds exactly one Route per successfully analyzed
\* route-decorated function dispatched so far, in the source order of those
\* functions; skipped statements contribute nothing and do not reorder it.
C10_SourceOrder ==
    LET analyzed == SelectSeq(SubSeq(module, 1, pc - 1), SuccessfullyAnalyzed)
    IN  /\ Len(routes) = Len(analyzed)
        /\ \A i \in DOMAIN routes : routes[i]._ast_node = analyzed[i]
        /\ \A i, j \in DOMAIN routes :
              i < j => routes[i]._ast_node.lineno < routes[j]._ast_node.lineno

C10_Witness ==
    /\ module = Numbered(<<f_two_routes, f_noargs, f_plain>>)
    /\ pc = 4
    /\ [i \in DOMAIN routes |-> routes[i]._ast_node.lineno] = <<1, 3>>

(***************************************************************************)
(* SpecEval: eval applied to one expression node.                          *)
(***************************************************************************)
EvalInit ==
    /\ WalkIdle /\ RouteIdle
    /\ globals \in GlobalsSet \cup {ShadowingGlobals}
    /\ node \in EvalInputs
    /\ value = NotEvaluated

Evaluate ==
    /\ value = NotEvaluated
    /\ value' = eval(node)
    /\ UNCHANGED <<module, globals, prepath, pc, routes, warnings, raised,
                   run, first_routes, legacy,
                   node, route, result, first_read>>

EvalNext == Evaluate
SpecEval == EvalInit /\ [][EvalNext]_vars

\* the tree is built only from Const, Tuple, List and Dict nodes
RECURSIVE IsLiteral(_)
IsLiteral(n) ==
    CASE n.k = "Const" -> TRUE
      [] n.k \in {"Tuple", "List"} -> \A i \in DOMAIN n.nodes : IsLiteral(n.nodes[i])
      [] n.k = "Dict" -> \A i \in DOMAIN n.items :
                             IsLiteral(n.items[i][1]) /\ IsLiteral(n.items[i][2])
      [] OTHER -> FALSE

\* the value a literal denotes in Python
RECURSIVE Denotes(_)
Denotes(n) ==
    CASE n.k = "Const" -> n.value
      [] n.k = "Tuple" -> TupleV([i \in DOMAIN n.nodes |-> Denotes(n.nodes[i])])
      [] n.k = "List" -> ListV([i \in DOMAIN n.nodes |-> Denotes(n.nodes[i])])
      [] n.k = "Dict" ->
            LET keyOf(i) == Denotes(n.items[i][1])
                last(key) == CHOOSE i \in DOMAIN n.items :
                                /\ keyOf(i) = key
                                /\ \A j \in DOMAIN n.items : keyOf(j) = key => j <= i
            IN  DictV([key \in {keyOf(i) : i \in DOMAIN n.items} |->
                          Denotes(n.items[last(key)][2])])

\* C6: eval of a tree built only from Const, Tuple, List and Dict nodes
\* (empty tuples, lists and dicts included) returns, without raising, the
\* value the literal denotes: same container kinds, same element order,
\* same key/value pairing.
C6_LiteralRoundTrip ==
    (value # NotEvaluated /\ IsLiteral(node)) => value = Return(Denotes(node))

\* The round trip of C6 holds for every literal tree without an empty Dict.
RECURSIVE HasEmptyDict(_)
HasEmptyDict(n) ==
    CASE n.k \in {"Tuple", "List"} -> \E i \in DOMAIN n.nodes : HasEmptyDict(n.nodes[i])
      [] n.k = "Dict" -> \/ n.items = <<>>
                         \/ \E i \in DOMAIN n.items :
                               HasEmptyDict(n.items[i][1]) \/ HasEmptyDict(n.items[i][2])
      [] OTHER -> FALSE
LiteralRoundTripNonEmptyDict ==
    (value # NotEvaluated /\ IsLiteral(node) /\ ~HasEmptyDict(node))
        => value = Return(Denotes(node))
EmptyDictRaises ==
    (value # NotEvaluated /\ IsLiteral(node) /\ HasEmptyDict(node))
        => value = Raise("ValueError")

\* the operands of an Add/Sub node were both evaluated successfully
OperandsEvaluated ==
    /\ value # NotEvaluated
    /\ node.k \in {"Add", "Sub"}
    /\ eval(node.left).ok /\ eval(node.right).ok
LeftOperand == eval(node.left).val
RightOperand == eval(node.right).val
\* left + right, left - right of Python numbers of which one is complex
ComplexResult ==
    LET re(v) == CASE v.t = "complex" -> v.re
                   [] v.t = "int" -> v.v
                   [] v.t = "bool" -> (IF v.v THEN 1 ELSE 0)
        im(v) == IF v.t = "complex" THEN v.im ELSE 0
        sign == IF node.k = "Add" THEN 1 ELSE -1
    IN  ComplexV(re(LeftOperand) + sign * re(RightOperand),
                 im(LeftOperand) + sign * im(RightOperand))

\* C7 (as claimed): binary add/subtract is accepted only when both
\* evaluated operands are complex; with at least one non-complex operand
\* eval raises OperationException.
C7_BothComplexOnly ==
    OperandsEvaluated =>
        IF LeftOperand.t = "complex" /\ RightOperand.t = "complex"
        THEN value = Return(ComplexResult)
        ELSE value = Raise("OperationException")

\* C7 (amended): eval raises OperationException exactly when neither
\* evaluated operand is complex; when at least one operand is complex and
\* both are numbers it returns left+right / left-right; when one is
\* complex and the other is not a number the operator's TypeError is raised.
C7_EitherComplex ==
    OperandsEvaluated =>
        /\ (value = Raise("OperationException"))
              <=> (LeftOperand.t # "complex" /\ RightOperand.t # "complex")
        /\ (LeftOperand.t = "complex" \/ RightOperand.t = "complex") =>
              IF LeftOperand.t \in {"int", "bool", "complex"}
                 /\ RightOperand.t \in {"int", "bool", "complex"}
              THEN value = Return(ComplexResult)
              ELSE value = Raise("TypeError")

C7_Witness ==
    /\ node = Add(Const(IntV(1)), Const(ComplexV(0, 1)))
    /\ value = Return(ComplexV(1, 1))

(***************************************************************************)
(* SpecRoute: a Route constructed directly (as the tests do) whose         *)
(* properties are then read in any order.                                  *)
(***************************************************************************)
NameAlphabet == {"a", "B", "1", "_"}
TestNames ==
    { Chars("getHTTPResponseCode"), Chars("handler"), Chars("GoGetStuff"),
      Chars("Handle92Numbers"), Chars("__ignoreEndUnderscores__"),
      Chars("get_HTTP_Response_Code"), Chars("mixedCamel_and_underscores"),
      Chars("camel_case_InTheMiddle"), Chars("__ignore_end_underscores__") }
\* identifiers: non-empty, not starting with a digit
NameInputs ==
    TestNames \cup
    {n \in StringsUpTo(NameAlphabet, MaxNameLen) : n # <<>> /\ n[1] \notin Digit}

FragAlphabet == {"<", ">", ":", "a", " "}
TestRule == Chars("/meh/<string(length=2):name1>/<int(min=3):name2>/something")
CuratedFragments ==
    { <<>>, Chars("meh"), Chars("<string(length=2):name1>"),
      Chars("<int(min=3):name2>"), Chars("<int:name1>"), Chars("<name>"),
      Chars("<path :p>") }
RuleInputs ==
    {TestRule} \cup StringsUpTo(FragAlphabet, MaxFragLen) \cup
    UNION { {str_join(fs, <<"/">>) : fs \in SeqsOfLen(CuratedFragments, n)} :
            n \in 2..MaxFragments }

DocAlphabet == {"a", " ", "\n", "\t"}
HelloDoc == Chars("\n    Says hello\n\n      to you\n    ")
DocInputs == {HelloDoc} \cup StringsUpTo(DocAlphabet, MaxDocLen)

RouteInit ==
    /\ WalkIdle /\ EvalIdle
    /\ globals = NoGlobals
    /\ route \in
          {Route(StrV(rule), ListV(<<StrV(s_GET)>>),
                 Function(Chars("handler"), NoneNode, NoneV, 1), NoneV, NoneV) :
             rule \in RuleInputs}
          \cup
          {Route(StrV(<<"/">>), ListV(<<StrV(s_GET)>>),
                 Function(name, NoneNode, NoneV, 1), NoneV, NoneV) :
             name \in NameInputs}
          \cup
          {Route(StrV(<<"/">>), ListV(<<StrV(s_GET)>>),
                 Function(Chars("handler"), NoneNode, StrV(doc), 1), NoneV, NoneV) :
             doc \in DocInputs}
    /\ result = NothingRead
    /\ first_read = NotRecorded

RouteFrame == UNCHANGED <<module, globals, prepath, pc, routes, warnings, raised,
                   run, first_routes, legacy,
                          node, value>>

\* the outcome of the first read of each property is kept for comparison,
\* where first reads are kept
recorded(view, out) ==
    IF view \in DOMAIN first_read /\ first_read[view] = NotEvaluated
    THEN [first_read EXCEPT ![view] = out]
    ELSE first_read

GetPath ==
    /\ route' = path(route).self
    /\ result' = [prop |-> "path", out |-> path(route).result]
    /\ first_read' = recorded("path", path(route).result)
    /\ RouteFrame

GetPathTypes ==
    /\ route' = path_types(route).self
    /\ result' = [prop |-> "path_types", out |-> path_types(route).result]
    /\ first_read' = recorded("path_types", path_types(route).result)
    /\ RouteFrame

GetTitle ==
    /\ route' = title(route).self
    /\ result' = [prop |-> "title", out |-> title(route).result]
    /\ first_read' = recorded("title", title(route).result)
    /\ RouteFrame

GetDocstring ==
    /\ route' = docstring(route).self
    /\ result' = [prop |-> "docstring", out |-> docstring(route).result]
    /\ first_read' = recorded("docstring", docstring(route).result)
    /\ RouteFrame

RouteNext == GetPath \/ GetPathTypes \/ GetTitle \/ GetDocstring
SpecRoute == RouteInit /\ [][RouteNext]_vars

\* the ways of reading a fragment as <type:name>, type and name non-empty
\* and free of whitespace
FormSplits(f) ==
    { [type |-> SubSeq(f, 2, c - 1), name |-> SubSeq(f, c + 1, Len(f) - 1)] :
        c \in { d \in 3..(Len(f) - 2) :
                  /\ f[1] = "<" /\ f[Len(f)] = ">" /\ f[d] = ":"
                  /\ \A i \in 2..(Len(f) - 1) : f[i] \notin Whitespace } }
HasForm(f) == FormSplits(f) # {}
Braced(name) == <<"{">> \o name \o <<"}">>

Stripped == str_strip(route._ast_node.name, {"_"})
TitleRead == route # NoRoute /\ result.prop = "title"

\* a word boundary lies before position i of the camel-cased name n
CamelBoundary(n, i) ==
    /\ i \in 2..Len(n)
    /\ \/ n[i] \in Upper /\ i < Len(n) /\ n[i + 1] \in Lower
       \/ n[i - 1] \in (Lower \cup Digit) /\ n[i] \in Upper
       \/ n[i - 1] \in (Lower \cup Upper) /\ n[i] \in Digit
\* the word of n that contains position i
WordStart(n, i) ==
    CHOOSE b \in 1..i : (b = 1 \/ CamelBoundary(n, b))
                        /\ \A c \in (b + 1)..i : ~CamelBoundary(n, c)
WordEnd(n, i) ==
    CHOOSE e \in i..Len(n) : (e = Len(n) \/ CamelBoundary(n, e + 1))
                             /\ \A c \in (i + 1)..e : ~CamelBoundary(n, c)
\* all the letters of the word are uppercase, and it has one
AllUppercase(w) == /\ \E i \in DOMAIN w : w[i] \in Upper
                   /\ \A i \in DOMAIN w : w[i] \notin Lower
RECURSIVE CamelTitleFrom(_, _)
CamelTitleFrom(n, i) ==
    IF i > Len(n) THEN <<>>
    ELSE LET b == WordStart(n, i)
             word == SubSeq(n, b, WordEnd(n, i))
             ch == IF b = 1 THEN (IF i = 1 THEN ToUpper(n[i]) ELSE n[i])
                   ELSE IF AllUppercase(word) THEN n[i] ELSE ToLower(n[i])
         IN  (IF i > 1 /\ b = i THEN <<" ", ch>> ELSE <<ch>>) \o CamelTitleFrom(n, i + 1)
CamelTitle(n) == CamelTitleFrom(n, 1)

TitleExpectedCamel ==
    (Chars("getHTTPResponseCode") :> Chars("Get HTTP response code")) @@
    (Chars("handler") :> Chars("Handler")) @@
    (Chars("GoGetStuff") :> Chars("Go get stuff")) @@
    (Chars("Handle92Numbers") :> Chars("Handle 92 numbers")) @@
    (Chars("__ignoreEndUnderscores__") :> Chars("Ignore end underscores"))

\* C4: for a handler name that, stripped of its leading and trailing
\* underscores, is non-empty and contains no underscore, title is the name
\* cut into words at the camel-case boundaries, the first word with its
\* first letter uppercased, later words lowercased unless all-uppercase,
\* joined by single spaces; the names of test_title_parses_camel_cased give
\* the titles that test expects.
C4_CamelCaseTitle ==
    (TitleRead /\ Stripped # <<>> /\ \A i \in DOMAIN Stripped : Stripped[i] # "_") =>
        /\ result.out = Return(StrV(CamelTitle(Stripped)))
        /\ route._ast_node.name \in DOMAIN TitleExpectedCamel =>
              result.out = Return(StrV(TitleExpectedCamel[route._ast_node.name]))

C4_Witness ==
    /\ TitleRead
    /\ route._ast_node.name = Chars("Handle92Numbers")
    /\ result.out = Return(StrV(Chars("Handle 92 numbers")))

\* a word with an uppercase letter after its first character that is not
\* all-uppercase
CamelInTheMiddle(w) ==
    /\ \E i \in 2..Len(w) : w[i] \in Upper
    /\ \E i \in DOMAIN w : w[i] \in Lower
UnderscoreTitle(n) ==
    LET words == str_split(n, "_")
        shown(i) == IF i = 1
                    THEN (IF words[1] = <<>> THEN <<>>
                          ELSE <<ToUpper(words[1][1])>> \o Tail(words[1]))
                    ELSE IF AllUppercase(words[i]) \/ CamelInTheMiddle(words[i])
                         THEN words[i]
                         ELSE str_lower(words[i])
    IN  str_join([i \in DOMAIN words |-> shown(i)], <<" ">>)

\* C5: for a handler name that still contains an underscore after stripping
\* the leading and trailing ones, title splits the name only at underscores
\* and keeps a word that is camel-cased in the middle as written, also when
\* it is not the first word (camel_case_InTheMiddle -> 'Camel case
\* InTheMiddle'); other later words are lowercased unless all-uppercase.
C5_UnderscoreTitle ==
    (TitleRead /\ \E i \in DOMAIN Stripped : Stripped[i] = "_") =>
        result.out = Return(StrV(UnderscoreTitle(Stripped)))

\* what the code does for such names: every later word that is not
\* all-uppercase is lowercased, camel-cased or not
UnderscoreTitleLowered ==
    (TitleRead /\ \E i \in DOMAIN Stripped : Stripped[i] = "_") =>
        LET words == str_split(Stripped, "_")
            shown(i) == IF i = 1
                        THEN <<ToUpper(words[1][1])>> \o Tail(words[1])
                        ELSE IF str_isupper(words[i]) THEN words[i]
                             ELSE str_lower(words[i])
        IN  result.out = Return(StrV(str_join([i \in DOMAIN words |-> shown(i)], <<" ">>)))

(***************************************************************************)
(* SpecFlatten: flatten_name applied to one node.                          *)
(***************************************************************************)
FlattenIdentifiers == {Chars("hey"), Chars("mod"), Chars("mod1")}
FlattenAttributes == {Chars("mod2"), Chars("attr"), Chars("route")}
\* expressions that are neither a name nor an attribute access
UnnamedBases ==
    { Call(Name(Chars("mod1")), <<>>), Const(StrV(Chars("mod"))), Const(IntV(1)),
      List(<<>>), Call(Getattr(Name(Chars("mod")), Chars("attr")), <<c_x>>) }
RECURSIVE AttributeChains(_)
AttributeChains(depth) ==
    IF depth = 0
    THEN {Name(c) : c \in FlattenIdentifiers} \cup UnnamedBases
    ELSE LET shorter == AttributeChains(depth - 1)
         IN  shorter \cup {Getattr(e, a) : e \in shorter, a \in FlattenAttributes}
\* nodes[0] of a bare Name decorator is the identifier itself, a str
FlattenInputs ==
    AttributeChains(MaxChain + 1) \cup {StrChild(c) : c \in FlattenIdentifiers}

FlattenInit ==
    /\ WalkIdle /\ RouteIdle
    /\ globals = NoGlobals
    /\ node \in FlattenInputs
    /\ value = NotEvaluated

Flatten ==
    /\ value = NotEvaluated
    /\ value' = flatten_name(node)
    /\ UNCHANGED <<module, globals, prepath, pc, routes, warnings, raised,
                   run, first_routes, legacy,
                   node, route, result, first_read>>

FlattenNext == Flatten
SpecFlatten == FlattenInit /\ [][FlattenNext]_vars

\* the innermost base of an attribute-access chain
RECURSIVE InnermostBase(_)
InnermostBase(n) == IF n.k = "Getattr" THEN InnermostBase(n.expr) ELSE n
\* the attribute names of a chain, in source order
RECURSIVE AttributesOf(_)
AttributesOf(n) ==
    IF n.k = "Getattr" THEN Append(AttributesOf(n.expr), n.attrname) ELSE <<>>
Flattened == value # NotEvaluated
NestedGetattr == Getattr(Getattr(Name(Chars("mod1")), Chars("mod2")), Chars("attr"))

\* C11: flatten_name of a Name is its identifier; of an attribute-access
\* chain over a Name, the identifiers joined by '.' in source order (the
\* three cases of FlattenNameTestCase among them); of a chain whose
\* innermost base is neither a name nor an attribute access, it raises.
C11_FlattenName ==
    Flattened /\ node.k # "str" =>
        /\ InnermostBase(node).k = "Name" =>
              value = Return(str_join(<<InnermostBase(node).name>> \o AttributesOf(node),
                                      <<".">>))
        /\ InnermostBase(node).k # "Name" => value = Raise("Exception")
        /\ node = Name(Chars("hey")) => value = Return(Chars("hey"))
        /\ node = Getattr(Name(Chars("mod")), Chars("attr"))
              => value = Return(Chars("mod.attr"))
        /\ node = NestedGetattr => value = Return(Chars("mod1.mod2.attr"))
C11_Witness ==
    /\ node = NestedGetattr
    /\ value = Return(Chars("mod1.mod2.attr"))

DocstringRead == result.prop = "docstring"
Undocumented == route._ast_node.doc = NoneV

\* C12: Route.docstring of a handler without documentation string (doc is
\* None) is the empty string, returned without raising; of a handler with
\* one it is the cleaned text, which the Route keeps.
C12_Docstring ==
    DocstringRead =>
        /\ result.out.ok
        /\ Undocumented => result.out.val = StrV(<<>>)
        /\ ~Undocumented => /\ result.out.val = route._docstring
                            /\ route._ast_node.doc = StrV(HelloDoc)
                                  => result.out.val = StrV(Chars("Says hello\n\n  to you"))

\* what the code does: the documented handler's docstring is the cleaned
\* text, the undocumented handler's docstring raises AttributeError
DocstringOfDocumented ==
    DocstringRead /\ ~Undocumented =>
        /\ result.out.ok
        /\ result.out.val = route._docstring
        /\ route._ast_node.doc = StrV(HelloDoc)
              => result.out.val = StrV(Chars("Says hello\n\n  to you"))
DocstringOfUndocumentedRaises ==
    DocstringRead /\ Undocumented => result.out = Raise("AttributeError")

(***************************************************************************)
(* SpecTwice: routes_from_module called a second time on the same module,  *)
(* the same global bindings and the same prepath.                          *)
(***************************************************************************)
\* routes = []   (line 389): every call starts from a list of its own
new_routes_mut(previous) == previous
new_routes(previous) == <<>>

\* return routes (line 393) of the first call, and the second call
AnalyzeAgain ==
    /\ run = 1
    /\ raised = NoException
    /\ pc > Len(module)
    /\ run' = 2
    /\ first_routes' = routes
    /\ routes' = new_routes(routes)
    /\ pc' = 1
    /\ UNCHANGED <<module, globals, prepath, warnings, raised, legacy,
                   node, value, route, result, first_read>>

NextTwice == VisitFunction \/ VisitDefault \/ AnalyzeAgain
SpecTwice == Init /\ [][NextTwice]_vars

Completed == pc > Len(module) /\ raised = NoException
SameRoute(a, b) ==
    /\ a.rule = b.rule
    /\ a.methods = b.methods
    /\ a.werkzeug_kwargs = b.werkzeug_kwargs
    /\ a.decorators = b.decorators
    /\ handler_name(a) = handler_name(b)
RunsAgree ==
    run = 2 /\ Completed =>
        /\ Len(routes) = Len(first_routes)
        /\ \A i \in DOMAIN routes : SameRoute(routes[i], first_routes[i])

RouteDecoratorOf(r) ==
    r._ast_node.decorators.nodes[FirstRouteIndex(r._ast_node)]
IsCollection(v) == v.t \in {"list", "tuple"}
\* the expression is written as, or names, an empty list or tuple
WrittenEmpty(e) ==
    \/ e.k \in {"List", "Tuple"} /\ e.nodes = <<>>
    \/ /\ e.k = "Name"
       /\ e.name \notin DOMAIN _builtin_consts
       /\ e.name \in DOMAIN globals
       /\ IsCollection(globals[e.name])
       /\ globals[e.name].v = <<>>

\* C14: the methods of every Route the analyzer emits are never empty,
\* whether the route decorator's `methods` keyword is absent, a non-empty
\* list or an explicitly empty list or tuple.
C14_MethodsNeverEmpty ==
    \A i \in DOMAIN routes :
        IsCollection(routes[i].methods) /\ routes[i].methods.v # <<>>

\* C14 as amended: the methods of a Route are an empty collection exactly
\* when the route decorator's `methods` keyword is given an empty list or
\* tuple; without the keyword they are ['GET'].
C14_MethodsEmptyOnlyAsWritten ==
    \A i \in DOMAIN routes :
        LET d == RouteDecoratorOf(routes[i])
        IN  /\ (IsCollection(routes[i].methods) /\ routes[i].methods.v = <<>>)
                  <=> \E j \in MethodsKeywords(d) : WrittenEmpty(d.args[j].expr)
            /\ MethodsKeywords(d) = {} => routes[i].methods.v = <<StrV(Chars("GET"))>>
C14_Witness ==
    /\ module = Numbered(<<f_empty_tuple>>)
    /\ pc = 2
    /\ Len(routes) = 1
    /\ routes[1].methods = TupleV(<<>>)

\* the decorators of f written as route registrations
RouteMatching(f) ==
    {j \in DOMAIN f.decorators.nodes : IsRouteRegistration(f.decorators.nodes[j])}

\* C15: a Route is produced only for functions that carry exactly one
\* route-matching decorator; a function carrying two or more yields no
\* Route.
C15_ExactlyOneRouteDecorator ==
    \A i \in DOMAIN routes : Cardinality(RouteMatching(routes[i]._ast_node)) = 1

\* C15 as amended: a Route is produced only for functions that carry at
\* least one route-matching decorator, and at most one Route per function;
\* a function carrying two or more route-matching decorators, all of whose
\* decorators flatten and whose first route decorator is analyzed without
\* error, yields exactly one Route, built from the first of them.
C15_AtLeastOneRouteDecorator ==
    /\ \A i \in DOMAIN routes : RouteMatching(routes[i]._ast_node) # {}
    /\ \A i \in Visited :
          IsDecorated(module[i]) =>
             LET f == module[i]
                 flat == flatten_all(f.decorators.nodes)
                 first == analyzeRoute(flat.val[FirstRouteIndex(f)])
             IN  /\ Cardinality(RoutesOf(f)) <= 1
                 /\ (Cardinality(RouteMatching(f)) >= 2 /\ flat.ok /\ first.ok) =>
                       \E r \in RoutesOf(f) : routes[r].rule = first.val.info.rule
C15_Witness ==
    /\ module = Numbered(<<f_two_routes>>)
    /\ pc = 2
    /\ Cardinality(RouteMatching(module[1])) = 2
    /\ Len(routes) = 1
    /\ routes[1].rule = StrV(Chars("/a"))
    /\ routes[1].decorators.v[1].name = StrV(Chars("app.route"))

\* the callee of the decorator cannot be flattened to a name
Unflattenable(d) ==
    \/ d.k = "CallFunc" /\ InnermostBase(d.node).k # "Name"
    \/ d.k = "Getattr" /\ InnermostBase(d.expr).k # "Name"
HasUnflattenable(f) ==
    \E j \in DOMAIN f.decorators.nodes : Unflattenable(f.decorators.nodes[j])
\* f carries a route registration that flattens and is analyzed without error
HasValidRoute(f) ==
    \E j \in DOMAIN f.decorators.nodes :
        /\ IsRouteRegistration(f.decorators.nodes[j])
        /\ flattenDecorator(f.decorators.nodes[j]).ok
        /\ analyzeRoute(flattenDecorator(f.decorators.nodes[j]).val).ok
\* every decorator of f that can be flattened to a name flattens without error
OthersFlatten(f) ==
    \A j \in DOMAIN f.decorators.nodes :
        Unflattenable(f.decorators.nodes[j]) \/ flattenDecorator(f.decorators.nodes[j]).ok

RuleAlphabet == {"/", "a", ":", " "}
HelloRule == Chars("/hello/<string:your_name>/")
CuratedRules ==
    { HelloRule, <<"/">>, Chars("/items:search"), Chars("/a/../b"), Chars("//x//y/") }
KeywordInputs ==
    { <<>>,
      <<kw_methods(List(<<Const(StrV(s_POST))>>))>>,
      <<kw_methods(Name(s_METHODS))>>,
      <<Keyword(Chars("strict_slashes"), Name(Chars("False")))>>,
      <<Keyword(Chars("strict_slashes"), Name(Chars("False"))),
        kw_methods(Tuple(<<Const(StrV(s_GET)), Const(StrV(s_POST))>>))>> }
RouteDecoratorInputs ==
    {Call(n_route, <<Const(StrV(rule))>>) : rule \in StringsUpTo(RuleAlphabet, MaxRuleLen)}
    \cup {Call(n_app_route, <<Const(StrV(rule))>> \o kws) :
             rule \in CuratedRules, kws \in KeywordInputs}
    \cup {Call(n_route, kws) : kws \in KeywordInputs}
    \cup {Call(n_route, <<Const(IntV(1))>> \o kws) : kws \in KeywordInputs}
AnalyzePrepaths == {<<>>, Chars("api/v1"), Chars("api/")}

AnalyzeInit ==
    /\ module = <<>> /\ pc = 1 /\ routes = <<>> /\ warnings = <<>>
    /\ raised = NoException /\ run = 1 /\ first_routes = <<>>
    /\ legacy = NoLegacy
    /\ route = NoRoute
    /\ globals = SomeGlobals
    /\ prepath \in AnalyzePrepaths
    /\ node \in RouteDecoratorInputs
    /\ value = NotEvaluated
    /\ result = NothingRead
    /\ first_read = NotRecorded

AnalyzeFrame ==
    UNCHANGED <<module, globals, prepath, pc, routes, warnings, raised,
                run, first_routes, legacy, node, route, first_read>>

\* self.flattenDecorator(decorator)   (line 235)
FlattenDecorator ==
    /\ value = NotEvaluated
    /\ value' = flattenDecorator(node)
    /\ result' = result
    /\ AnalyzeFrame

\* the flattened decorator and the result of analyzeRoute once it has
\* returned or raised
after_analyzeRoute(flat, analyzed) ==
    IF analyzed.ok
    THEN [flat |-> Return(analyzed.val.route), info |-> Return(analyzed.val.info)]
    ELSE [flat |-> flat, info |-> analyzed]

\* info = self.analyzeRoute(route_decorator[0])   (line 241)
AnalyzeRoute ==
    /\ value.ok
    /\ result = NothingRead
    /\ value' = after_analyzeRoute(value, analyzeRoute(value.val)).flat
    /\ result' = [prop |-> "analyzeRoute",
                  out |-> after_analyzeRoute(value, analyzeRoute(value.val)).info]
    /\ AnalyzeFrame

AnalyzeNext == FlattenDecorator \/ AnalyzeRoute
SpecAnalyze == AnalyzeInit /\ [][AnalyzeNext]_vars

Analyzed == result.prop = "analyzeRoute"
MethodsKey == StrV(Chars("methods"))
WithoutMethods(kwargs) ==
    DictV([key \in (DOMAIN kwargs.v) \ {MethodsKey} |-> kwargs.v[key]])

\* C17: a flattened decorator is immutable after flattenDecorator returns:
\* analyzeRoute leaves its name, positional args and keyword mapping
\* unchanged, the `methods` key included.
C17_DescriptorImmutable == [][value.ok => value' = value]_vars

\* C17 as amended: after flattenDecorator returns, the name and the
\* positional args of the flattened decorator never change; its keyword
\* mapping changes in one way only: when analyzeRoute returns, the
\* `methods` key has been deleted from it, the other keys and their values
\* being kept.
C17_OnlyMethodsDeleted ==
    [][value.ok =>
          /\ value'.ok
          /\ value'.val.name = value.val.name
          /\ value'.val.args = value.val.args
          /\ value'.val.kwargs \in {value.val.kwargs, WithoutMethods(value.val.kwargs)}
          /\ (result' # result /\ result'.out.ok) =>
                /\ value'.val.kwargs = WithoutMethods(value.val.kwargs)
                /\ result'.out.val.werkzeug_kwargs = value'.val.kwargs]_vars
C17_Witness ==
    /\ Analyzed /\ result.out.ok
    /\ MethodsKeywords(node) # {}
    /\ DOMAIN value.val.kwargs.v = {StrV(Chars("strict_slashes"))}
    /\ result.out.val.methods = TupleV(<<StrV(s_GET), StrV(s_POST)>>)

\* the rule as written in the decorator, and the rule of the result
WrittenRule == node.args[1].value.v
NonBlankFragments(rule) ==
    SelectSeq(str_split(rule, "/"), LAMBDA part : \E i \in DOMAIN part : part[i] \notin Whitespace)
Normalized(rule) == <<"/">> \o str_join(NonBlankFragments(rule), <<"/">>)

\* C18: for every string rule and every prepath the rule of the result
\* starts with '/'; with the empty prepath it is '/' followed by the
\* non-blank '/'-separated fragments of the written rule joined by single
\* '/' ('/hello/<string:your_name>/' gives '/hello/<string:your_name>',
\* '/' gives '/').
C18_RuleNormalization ==
    (Analyzed /\ result.out.ok) =>
        /\ str_startswith(result.out.val.rule.v, <<"/">>)
        /\ prepath = <<>> => result.out.val.rule.v = Normalized(WrittenRule)

\* what the code does: the rule always starts with '/'; it is the
\* normalized written rule when no fragment is '.' or '..' and the joined
\* fragments do not start like a URL scheme (letters, digits, '+', '-', '.'
\* up to a first ':')
RuleStartsWithSlash ==
    (Analyzed /\ result.out.ok) => str_startswith(result.out.val.rule.v, <<"/">>)
PlainRule(rule) ==
    /\ \A i \in DOMAIN rule : rule[i] # ":"
    /\ \A i \in DOMAIN NonBlankFragments(rule) :
          NonBlankFragments(rule)[i] \notin {<<".">>, <<".", ".">>}
PlainRuleNormalized ==
    (Analyzed /\ result.out.ok /\ prepath = <<>> /\ PlainRule(WrittenRule)) =>
        /\ result.out.val.rule.v = Normalized(WrittenRule)
        /\ WrittenRule = <<"/">> => result.out.val.rule.v = <<"/">>
        /\ WrittenRule = Chars("//x//y/") => result.out.val.rule.v = Chars("/x/y")
HelloRuleNormalized ==
    (Analyzed /\ result.out.ok /\ prepath = <<>> /\ WrittenRule = HelloRule) =>
        result.out.val.rule.v = Chars("/hello/<string:your_name>")
SchemeLikeRuleCut ==
    (Analyzed /\ result.out.ok /\ prepath = <<>> /\ WrittenRule = Chars("/items:search")) =>
        result.out.val.rule.v = Chars("/earch")

(***************************************************************************)
(* Name resolution in eval.                                                *)
(***************************************************************************)
BuiltinNames == {Chars("True"), Chars("False"), Chars("None")}
BuiltinConstant(name) ==
    CASE name = Chars("True") -> BoolV(TRUE)
      [] name = Chars("False") -> BoolV(FALSE)
      [] name = Chars("None") -> NoneV
NameEvaluated == node.k = "Name" /\ value # NotEvaluated
NameResolved ==
    NameEvaluated =>
        value = IF node.name \in BuiltinNames
                THEN Return(BuiltinConstant(node.name))
                ELSE IF node.name \in DOMAIN globals
                     THEN Return(globals[node.name])
                     ELSE Raise("NonGlobalError")

\* C19: a Name called True, False or None evaluates to that built-in
\* constant whatever the global bindings hold under the same identifier;
\* any other Name evaluates to its global binding when there is one and
\* otherwise eval raises NonGlobalError; eval leaves the global bindings
\* as they were.
C19_NameResolution ==
    /\ []NameResolved
    /\ [][globals' = globals]_vars

\* a built-in name that the module also binds has been evaluated to the
\* built-in constant
C19_Witness ==
    /\ node = Name(Chars("False"))
    /\ Chars("False") \in DOMAIN globals
    /\ globals[Chars("False")] # BoolV(FALSE)
    /\ value = Return(BoolV(FALSE))

(***************************************************************************)
(* The legacy visitor: RouteFindingASTVisitor of                           *)
(* flaschenetikett/routeparser.py.  Its eval (lines 167-213) is that of    *)
(* the current visitor but for `type(x) == type(1.0j)` in place of         *)
(* `isinstance(x, complex)`, which agree on every value of the model, so   *)
(* eval and the loop over nodes[1:] are those defined above.               *)
(***************************************************************************)
\* route_decorator_name = re.compile('.*\.?route$'), used with match
\* (routeparser.py line 30, line 103)
route_decorator_name(name) ==
    LET e == IF name # <<>> /\ name[Len(name)] = "\n"
             THEN SubSeq(name, 1, Len(name) - 1) ELSE name
        prefix == SubSeq(e, 1, Len(e) - 5)
    IN  /\ Len(e) >= 5
        /\ SubSeq(e, Len(e) - 4, Len(e)) = Chars("route")
        /\ \A i \in DOMAIN prefix : prefix[i] # "\n"

\* flattened = {}   (routeparser.py line 152)
empty_dict == [key \in {} |-> NoneV]

\* flattenDecorator (routeparser.py lines 142-165): the empty dictionary
\* unless the first child is a Name
legacy_flattenDecorator(decorator) ==
    LET nodes == getChildren(decorator)
    IN  IF nodes[1].k # "Name" THEN Return(empty_dict)
        ELSE flattened(Return(nodes[1].name),
                       flatten_arguments(Tail(nodes), <<>>, <<>>))

\* [self.flattenDecorator(decorator) for decorator in node.decorators]
\* (routeparser.py lines 100-101)
RECURSIVE legacy_flatten_all(_)
legacy_flatten_all(decorators) ==
    IF decorators = <<>> THEN Return(<<>>)
    ELSE comprehension(legacy_flattenDecorator(Head(decorators)),
                       legacy_flatten_all(Tail(decorators)))

\* analyzeRoute (routeparser.py lines 115-140): the `del` of line 139 has
\* no test before it
legacy_analyzeRoute(r) ==
    IF r.args.v = <<>> THEN Raise("IndexError")
    ELSE IF r.args.v[1].t # "str" THEN Raise("AttributeError")
    ELSE LET fragments == SelectSeq(str_split(r.args.v[1].v, "/"),
                                    LAMBDA part : str_strip(part, Whitespace) # <<>>)
             url == rooted(urljoin_http(prepath, str_join(fragments, <<"/">>)))
             methodsKey == StrV(Chars("methods"))
             kw == r.kwargs.v
         IN  IF methodsKey \notin DOMAIN kw THEN Raise("KeyError")
             ELSE Return([rule |-> StrV(url),
                          methods |-> kw[methodsKey],
                          route_kwargs |->
                              DictV([key \in (DOMAIN kw) \ {methodsKey} |-> kw[key]])])

\* routeparser.py lines 106-110, from the outcomes of analyzeRoute and of
\* cleandoc(node.doc): the dictionary appended to routes
legacy_new_route(n, analyzed, cleaned, others) ==
    IF ~analyzed.ok THEN analyzed
    ELSE IF ~cleaned.ok THEN cleaned
    ELSE Return([appended |-> TRUE,
                 route |-> [rule |-> analyzed.val.rule,
                            methods |-> analyzed.val.methods,
                            route_kwargs |-> analyzed.val.route_kwargs,
                            docstring |-> cleaned.val,
                            _node |-> n,
                            decorators |-> ListV(others)]])

\* routeparser.py lines 102-110, from the outcome of the comprehension of
\* line 100: flat['name'] raises KeyError for an empty dictionary
legacy_select_route(n, flat) ==
    IF ~flat.ok THEN flat
    ELSE IF \E i \in DOMAIN flat.val : "name" \notin DOMAIN flat.val[i]
    THEN Raise("KeyError")
    ELSE LET decorators == flat.val
             route_decorator ==
                 SelectSeq(decorators, LAMBDA f : route_decorator_name(f.name.v))
         IN  IF Len(route_decorator) > 0
             THEN legacy_new_route(n, legacy_analyzeRoute(route_decorator[1]),
                                   cleandoc(n.doc),
                                   list_remove(decorators, route_decorator[1]))
             ELSE Return([appended |-> FALSE, route |-> NoRoute])

\* the try statement (routeparser.py lines 99-113) once its body has run
legacy_try_except(n, rs, ws, tried) ==
    IF tried.ok
    THEN [routes |-> IF tried.val.appended THEN Append(rs, tried.val.route) ELSE rs,
          warnings |-> ws,
          raised |-> NoException]
    ELSE IF tried.exc \in ExceptionClasses
    THEN [routes |-> rs,
          warnings |-> Append(ws, [node |-> n, exc |-> tried.exc]),
          raised |-> NoException]
    ELSE [routes |-> rs, warnings |-> ws, raised |-> tried.exc]

\* visitFunction (routeparser.py lines 96-113)
legacy_visitFunction(n, rs, ws) ==
    IF n.decorators = NoneNode
    THEN [routes |-> rs, warnings |-> ws, raised |-> NoException]
    ELSE legacy_try_except(n, rs, ws,
             legacy_select_route(n, legacy_flatten_all(n.decorators.nodes)))

(***************************************************************************)
(* SpecLegacy: both visitors walk the same tree with the same global       *)
(* bindings and prepath, each at its own pace.                             *)
(***************************************************************************)
MaxLegacyStmts == 2  \* statements of a module given to both visitors

Documented(f) == IF f.k = "Function" THEN [f EXCEPT !.doc = StrV(Chars("Doc.\n"))] ELSE f
f_route_methods ==
    Def("rm", <<Call(n_route, <<Const(StrV(Chars("/r//m/"))),
                                kw_methods(List(<<Const(StrV(s_POST))>>)),
                                Keyword(Chars("strict"), Name(s_True))>>)>>)
f_myroute_methods ==
    Def("mm", <<Call(Name(Chars("myroute")), <<c_x, kw_methods(Name(s_METHODS))>>)>>)
f_headered_route_methods ==
    Def("hm", <<n_headered,
                Call(n_route, <<c_x, kw_methods(List(<<Const(StrV(s_GET))>>))>>)>>)
f_cache_route_methods ==
    Def("cm", <<Call(Name(Chars("cache")), <<Const(IntV(1))>>),
                Call(n_route, <<c_x, kw_methods(List(<<Const(StrV(s_GET))>>))>>)>>)
LegacyCoreStmts ==
    { Documented(f_plain), Documented(f_route_methods), f_route_methods,
      f_methods, Documented(f_myroute_methods),
      Documented(f_headered_route_methods), Documented(f_cache_route_methods),
      f_undecorated, OtherStmt }
LegacySingleStmts ==
    AllStmts \cup {Documented(st) : st \in AllStmts}
             \cup {f_myroute_methods, f_headered_route_methods, f_cache_route_methods}
LegacyModules ==
    {Numbered(<<st>>) : st \in LegacySingleStmts} \cup
    UNION { {Numbered(ss) : ss \in SeqsOfLen(LegacyCoreStmts, n)} :
              n \in 0..MaxLegacyStmts }

\* routes = []; RouteFindingASTVisitor(routes, vars(module), prepath)
\* (routeparser.py lines 251-252) next to the current visitor's
LegacyInit ==
    /\ EvalIdle /\ RouteIdle
    /\ module \in LegacyModules
    /\ \/ globals = SomeGlobals /\ prepath = <<>>
       \/ globals = NoGlobals /\ prepath = Chars("api/v1")
    /\ pc = 1
    /\ routes = <<>>
    /\ warnings = <<>>
    /\ raised = NoException
    /\ run = 1
    /\ first_routes = <<>>
    /\ legacy = NoLegacy

LegacyFrame ==
    UNCHANGED <<module, globals, prepath, pc, routes, warnings, raised,
                run, first_routes, node, value, route, result, first_read>>

\* the legacy visitor dispatches a Function child: visitFunction
LegacyVisitFunction ==
    /\ legacy.raised = NoException
    /\ legacy.pc <= Len(module)
    /\ module[legacy.pc].k = "Function"
    /\ LET after == legacy_visitFunction(module[legacy.pc], legacy.routes,
                                         legacy.warnings)
       IN  legacy' = [pc |-> IF after.raised = NoException
                             THEN legacy.pc + 1 ELSE legacy.pc,
                      routes |-> after.routes,
                      warnings |-> after.warnings,
                      raised |-> after.raised]
    /\ LegacyFrame

\* the legacy visitor dispatches any other child: default, a no-op
\* (routeparser.py lines 85-87)
LegacyVisitDefault ==
    /\ legacy.raised = NoException
    /\ legacy.pc <= Len(module)
    /\ module[legacy.pc].k # "Function"
    /\ legacy' = [legacy EXCEPT !.pc = @ + 1]
    /\ LegacyFrame

LegacyNext ==
    VisitFunction \/ VisitDefault \/ LegacyVisitFunction \/ LegacyVisitDefault
SpecLegacy == LegacyInit /\ [][LegacyNext]_vars

BothCompleted == Completed /\ legacy.pc > Len(module) /\ legacy.raised = NoException
SameAsLegacy(r, l) ==
    /\ r._ast_node = l._node
    /\ r.rule = l.rule
    /\ r.methods = l.methods
    /\ r.werkzeug_kwargs = l.route_kwargs

\* C20: the legacy visitor is a copy of the current one: walking the same
\* tree with the same global bindings and prepath, both emit a route for
\* the same functions, in the same order, with the same rule, methods and
\* remaining keyword arguments, and both skip the same functions.
C20_LegacyEquivalence ==
    BothCompleted =>
        /\ Len(routes) = Len(legacy.routes)
        /\ \A i \in DOMAIN routes : SameAsLegacy(routes[i], legacy.routes[i])

\* what the two visitors do share: a function for which both emit a route
\* has the same rule, methods and remaining keyword arguments in both
\* unless the legacy visitor chose another decorator of it
LegacyDecoratorName(l) ==
    LET f == l._node
        i == CHOOSE i \in DOMAIN f.decorators.nodes :
                 /\ f.decorators.nodes[i].k = "CallFunc"
                 /\ f.decorators.nodes[i].node.k = "Name"
                 /\ route_decorator_name(f.decorators.nodes[i].node.name)
    IN  f.decorators.nodes[i].node.name
LegacyAgreesWhereBothEmit ==
    \A i \in DOMAIN routes : \A j \in DOMAIN legacy.routes :
        (/\ routes[i]._ast_node = legacy.routes[j]._node
         /\ LegacyDecoratorName(legacy.routes[j]) = Chars("route"))
            => SameAsLegacy(routes[i], legacy.routes[j])
\* every route of the legacy visitor comes from a documented function whose
\* decorators are all calls of plain names, the chosen one with `methods`
LegacyEmitsOnly ==
    \A j \in DOMAIN legacy.routes :
        LET f == legacy.routes[j]._node
        IN  /\ f.doc # NoneV
            /\ \A i \in DOMAIN f.decorators.nodes :
                  /\ f.decorators.nodes[i].k = "CallFunc"
                  /\ f.decorators.nodes[i].node.k = "Name"
            /\ \E i \in DOMAIN f.decorators.nodes :
                  \E a \in DOMAIN f.decorators.nodes[i].args :
                      /\ f.decorators.nodes[i].args[a].k = "Keyword"
                      /\ f.decorators.nodes[i].args[a].name = s_methods
\* a route decorator without `methods` on a documented function: the
\* current visitor emits the route, the legacy one warns
LegacySkipsDefaultMethods ==
    (BothCompleted /\ module = Numbered(<<Documented(f_plain)>>)) =>
        /\ Len(routes) = 1 /\ legacy.routes = <<>>
        /\ Len(legacy.warnings) = 1 /\ legacy.warnings[1].exc = "KeyError"
\* a name like 'myroute': the legacy visitor emits a route, the current
\* one does not
LegacyMatchesMyroute ==
    (BothCompleted /\ module = Numbered(<<Documented(f_myroute_methods)>>)
                   /\ globals = SomeGlobals) =>
        /\ routes = <<>> /\ Len(legacy.routes) = 1

(***************************************************************************)
(* SpecViews: the properties of one Route read in any order, any number    *)
(* of times, the outcome of the first read of each being kept.             *)
(***************************************************************************)
MaxViewNameLen == 3  \* length of the generated handler names of SpecViews

ViewRules == {TestRule, <<"/">>, Chars("/a/<int:b>"), Chars("<a:a>")}
ViewNames ==
    TestNames \cup
    {n \in StringsUpTo(NameAlphabet, MaxViewNameLen) : n # <<>> /\ n[1] \notin Digit}
ViewDocs == {NoneV, StrV(HelloDoc), StrV(<<>>), StrV(Chars(" a\n\tb"))}

ViewsInit ==
    /\ WalkIdle /\ EvalIdle
    /\ globals = NoGlobals
    /\ route \in
          {Route(StrV(rule), ListV(<<StrV(s_GET)>>),
                 Function(name, NoneNode, doc, 1),
                 DictV((StrV(Chars("strict")) :> BoolV(TRUE))),
                 ListV(<<[name |-> StrV(Chars("headered")), args |-> ListV(<<>>),
                          kwargs |-> DictV(<<>>)]>>)) :
             rule \in ViewRules, name \in ViewNames, doc \in ViewDocs}
    /\ result = NothingRead
    /\ first_read = NotRead

SpecViews == ViewsInit /\ [][RouteNext]_vars

PathsTogether == (route._path = NoneV) <=> (route._path_types = NoneV)
\* the last read returned or raised what the first read of that property did
SameAsFirstRead == result.prop \in Views => result.out = first_read[result.prop]
\* a read of a property that was read before changes no field
RepeatedReadChangesNothing ==
    \A view \in Views :
        (result'.prop = view /\ first_read[view] # NotEvaluated) => route' = route
ConstructorFieldsKept ==
    /\ route'.rule = route.rule
    /\ route'.methods = route.methods
    /\ route'.werkzeug_kwargs = route.werkzeug_kwargs
    /\ route'.decorators = route.decorators
    /\ route'._ast_node = route._ast_node

\* C21: path and path_types are computed together (`_path is None` iff
\* `_path_types is None` in every state, whichever is read first); once a
\* property (path, path_types, title, docstring) has been read, every later
\* read of it returns the same value and changes no field of the Route; no
\* read changes rule, methods, werkzeug_kwargs or decorators.
C21_LazyViews ==
    /\ [](PathsTogether /\ SameAsFirstRead)
    /\ [][RepeatedReadChangesNothing /\ ConstructorFieldsKept]_vars

\* what the code does: all of the above but for a title whose first read
\* raised, where the later reads return the string left in _title
FirstReadRaised(view) == first_read[view] # NotEvaluated /\ ~first_read[view].ok
SameAsFirstReadUnlessTitleRaised ==
    (result.prop \in Views /\ ~(result.prop = "title" /\ FirstReadRaised("title")))
        => result.out = first_read[result.prop]
TitleAfterRaise ==
    (result.prop = "title" /\ FirstReadRaised("title")) =>
        /\ first_read["title"] = Raise("IndexError")
        /\ str_strip(route._ast_node.name, {"_"}) = <<>>
        /\ route._title = StrV(<<>>)
        /\ result.out \in {Raise("IndexError"), Return(StrV(<<>>))}
LazyViewsButTitle ==
    /\ [](PathsTogether /\ SameAsFirstReadUnlessTitleRaised /\ TitleAfterRaise)
    /\ [][RepeatedReadChangesNothing /\ ConstructorFieldsKept]_vars
TitleReadTwiceDiffers ==
    /\ route._ast_node.name = <<"_">>
    /\ first_read["title"] = Raise("IndexError")
    /\ result = [prop |-> "title", out |-> Return(StrV(<<>>))]

(***************************************************************************)
(* The outcome of each function visited (Spec).                            *)
(***************************************************************************)
VisitedFunctions == {i \in Visited : module[i].k = "Function"}
DecoratedVisited == {i \in Visited : IsDecorated(module[i])}
OutcomeExclusive ==
    /\ \A i \in VisitedFunctions :
          /\ Cardinality(RoutesOf(module[i])) + Cardinality(WarningsOf(module[i])) <= 1
          /\ ~IsDecorated(module[i]) =>
                RoutesOf(module[i]) = {} /\ WarningsOf(module[i]) = {}
    /\ \A r \in DOMAIN routes :
          \E i \in DecoratedVisited : routes[r]._ast_node = module[i]
    /\ \A w \in DOMAIN warnings :
          \E i \in DecoratedVisited : warnings[w].node = module[i]
    /\ Len(routes) + Len(warnings) <= Cardinality(DecoratedVisited)
\* one visit adds one Route, or one diagnostic, or nothing, at the end of
\* its list
OneOutcomePerVisit ==
    /\ Len(routes') >= Len(routes) /\ SubSeq(routes', 1, Len(routes)) = routes
    /\ Len(warnings') >= Len(warnings)
    /\ SubSeq(warnings', 1, Len(warnings)) = warnings
    /\ (Len(routes') - Len(routes)) + (Len(warnings') - Len(warnings)) \in {0, 1}
    /\ (pc' = pc + 1 /\ ~IsDecorated(module[pc])) =>
          routes' = routes /\ warnings' = warnings

\* C22: each function visited produces exactly one of: one Route and no
\* diagnostic, one diagnostic and no Route, or nothing; never both, never
\* more than one Route, and nothing for an undecorated function; so the
\* Routes and diagnostics together never outnumber the decorated functions
\* visited.
C22_ExclusiveOutcome ==
    /\ []OutcomeExclusive
    /\ [][OneOutcomePerVisit]_vars

\* a finished walk in which each outcome has occurred on a decorated
\* function
C22_Witness ==
    /\ pc > Len(module)
    /\ Len(routes) = 1 /\ Len(warnings) = 1
    /\ routes[1]._ast_node # warnings[1].node
    /\ \E i \in DecoratedVisited :
          RoutesOf(module[i]) = {} /\ WarningsOf(module[i]) = {}

(***************************************************************************)
(* Totality of Route.title (SpecRoute).                                    *)
(***************************************************************************)
HandlerName == route._ast_node.name
OnlyUnderscores(n) == \A i \in DOMAIN n : n[i] = "_"
InnerDoubleUnderscore(n) ==
    \E i \in 1..(Len(str_strip(n, {"_"})) - 1) :
        str_strip(n, {"_"})[i] = "_" /\ str_strip(n, {"_"})[i + 1] = "_"
NoUnderscore(s) == \A i \in DOMAIN s : s[i] # "_"
NoDoubleSpace(s) == \A i \in 1..(Len(s) - 1) : ~(s[i] = " " /\ s[i + 1] = " ")

\* C23: whatever the handler's identifier (identifiers of underscores only
\* such as '_' or '__', identifiers with consecutive inner underscores such
\* as 'a__b'), reading title returns a string without raising, and the
\* string holds no underscore and no two consecutive spaces.
C23_TitleTotal ==
    TitleRead =>
        /\ result.out.ok
        /\ result.out.val.t = "str"
        /\ NoUnderscore(result.out.val.v)
        /\ NoDoubleSpace(result.out.val.v)

\* what the code does: title raises IndexError for an identifier of
\* underscores only (and returns '' on the reads after that); otherwise it
\* returns a string without underscores, with two consecutive spaces
\* exactly when the identifier has consecutive inner underscores
TitleOfUnderscoresRaises ==
    (TitleRead /\ OnlyUnderscores(HandlerName)) =>
        \/ result.out = Raise("IndexError") /\ route._title = StrV(<<>>)
        \/ result.out = Return(StrV(<<>>)) /\ route._title = StrV(<<>>)
TitleOfOtherNames ==
    (TitleRead /\ ~OnlyUnderscores(HandlerName)) =>
        /\ result.out.ok
        /\ result.out.val.t = "str"
        /\ result.out.val.v # <<>>
        /\ NoUnderscore(result.out.val.v)
        /\ NoDoubleSpace(result.out.val.v) <=> ~InnerDoubleUnderscore(HandlerName)
TitleDoubleSpace ==
    (TitleRead /\ HandlerName = Chars("a__B")) =>
        result.out = Return(StrV(Chars("A  B")))

====
